---------------------------- MODULE Spec2Model ----------------------------
(***************************************************************************)
(* Model of the recording subsystem, src/utils/recorder.py:                *)
(* class UniversalRecorder: the run/phase lifecycle (test_run_start,       *)
(* run_end, phase_start, phase_end) and record_complete_dataset.           *)
(*                                                                         *)
(* Paths are strings built as pathlib builds them from plain relative      *)
(* names ("top/WS1/..."); run_dir and phase_dir hold "" while nothing is   *)
(* open, as in the source.  Each action is one whole call of a public      *)
(* method; the variables call, pre, log, made and written record the last  *)
(* call, the tracker before it, the log entries it emitted, the            *)
(* directories it created and the files it wrote.                          *)
(*                                                                         *)
(* Three specifications run these actions on different inputs: Spec        *)
(* (scope "lifecycle") varies the run identity, the phases and the clock;  *)
(* SpecData (scope "data") varies the arguments of record_complete_dataset *)
(* and keeps them, with the work of the call, in the variable call;        *)
(* SpecFiles (scope "files") follows the files below top_dir from call to  *)
(* call.  There a table is modelled by its column labels and its row       *)
(* count.  A fourth, SpecCells (scope "cells"), applies the private methods *)
(* that build, clean and summarise a table to tables given cell by cell.    *)
(***************************************************************************)
EXTENDS Integers, Sequences, FiniteSets, TLC

VARIABLES
    run_dir,            \* self.run_dir: "" or the open run's directory
    phase_dir,          \* self.phase_dir: "" or the open phase's directory
    cwd,                \* self.cwd
    current_run_info,   \* self.current_run_info: {} or the identity record
    now,                \* the wall clock read by time.localtime(), in seconds
    call,               \* the last call: its name, arguments and outcome
    pre,                \* the tracker fields as they were before the last call
    log,                \* the logging entries of the last call, in order
    made,               \* the directories the last call created
    written,            \* the files the last call wrote, in order
    files,              \* in scope "files": the files below top_dir, each with
                        \* the dataset names of its first and its latest writer
    scope               \* the inputs the callers draw from: "lifecycle",
                        \* "data" or "files"; fixed by the initial state

vars ==
    <<run_dir, phase_dir, cwd, current_run_info, now, call, pre, log, made,
      written, files, scope>>

-----------------------------------------------------------------------------
(* Bounds of the model *)

MaxTime == 1            \* the clock shows seconds 0..MaxTime

(* Input alphabets.  Scope "lifecycle" varies the identity and the clock   *)
(* and keeps the datasets few; scope "data" varies the dataset arguments   *)
(* under one run identity per device; scope "files" follows the files of   *)
(* well-formed datasets from call to call.                                 *)

Workstations == {"WS1"}
Families == {"FAU"}
Batches == {"B01"}
Lots == {"L01"}
Wafers == {"W01"}
DutIds == IF scope = "files" THEN {"D1"} ELSE {"D1", "D2"}
RunSetIds == {1}
RunIds == {7, 12}
PhaseIdxs == {1, 2}
PhaseNames == {"Sweep"}
DatasetNames == IF scope = "files" THEN {"iv", "pw"} ELSE {"iv"}

\* the required keys of test_info and environment_info (lines 370-371)
required_test_fields == <<"test_name", "test_location", "test_user">>
required_env_fields == <<"environment_temp", "environment_humidity">>

Range(q) == {q[i] : i \in 1..Len(q)}

\* the dicts passed as test_info / environment_info, by their key sets:
\* complete, or lacking one required key
TestInfos ==
    {Range(required_test_fields)}
    \cup (IF scope = "files" THEN {}
          ELSE {Range(required_test_fields) \ {"test_user"}})
EnvInfos ==
    {Range(required_env_fields)}
    \cup (IF scope = "files" THEN {}
          ELSE {Range(required_env_fields) \ {"environment_humidity"}})

\* a Python value that is None, an int or a str (a selector, a column
\* label): k "none" is None, k "int" the int i, k "str" the string s
NoneSel == [k |-> "none", i |-> 0, s |-> ""]
IntSel(i) == [k |-> "int", i |-> i, s |-> ""]
StrSel(s) == [k |-> "str", i |-> 0, s |-> s]

\* the labels pandas gives the columns of an unlabelled table: 0..n-1
DefaultLabels(n) == [i \in 1..n |-> IntSel(i - 1)]
\* a list of strings as column labels
StrLabels(q) == [i \in 1..Len(q) |-> StrSel(q[i])]

\* the data argument, by its shape (the isinstance cases of lines 79-114),
\* its own column labels (a DataFrame's columns, the header tokens of a
\* text file), its column and row counts, and whether reading it raises
Data(shape, labels, ncols, nrows, raises) ==
    [shape |-> shape, labels |-> labels, ncols |-> ncols, nrows |-> nrows,
     raises |-> raises]
EmptyList == Data("list", <<>>, 0, 0, FALSE)
Frame(names, nrows) == Data("DataFrame", StrLabels(names), Len(names), nrows, FALSE)
Unlabelled(shape, ncols, nrows) == Data(shape, <<>>, ncols, nrows, FALSE)
BadCsv == Data("csv", <<>>, 0, 0, TRUE)

\* the pairs (data, headers) passed; headers <<>> stands for None or []
Source(data, headers) == [data |-> data, headers |-> headers]
Sources ==
    IF scope = "lifecycle"
    THEN {Source(EmptyList, <<>>), Source(Frame(<<"x", "y">>, 3), <<>>),
          Source(BadCsv, <<>>)}
    ELSE IF scope = "data"
    THEN {Source(EmptyList, <<>>), Source(Frame(<<"x", "y", "z">>, 3), <<>>),
          Source(Unlabelled("ndarray", 2, 3), <<>>),
          Source(Unlabelled("ndarray", 2, 3), <<"a", "b">>),
          Source(Unlabelled("rows", 2, 3), <<"a">>),
          Source(Unlabelled("txt", 2, 3), <<>>),
          Source(Frame(<<"y", "3">>, 3), <<>>),
          Source(BadCsv, <<>>)}
    ELSE {Source(Frame(<<"x", "y">>, 3), <<>>)}

TestingVariables ==
    IF scope = "lifecycle" THEN {NoneSel, IntSel(0), StrSel("zz")}
    ELSE IF scope = "data" THEN {NoneSel, StrSel("zz"), IntSel(3)}
    ELSE {NoneSel}
\* dependent_variables: <<NoneSel>> stands for None, otherwise the list
DependentVariables ==
    IF scope = "lifecycle"
    THEN {<<NoneSel>>, <<IntSel(-1)>>, <<StrSel("y"), StrSel("zz")>>}
    ELSE IF scope = "data"
    THEN {<<NoneSel>>, <<StrSel("y"), StrSel("z")>>,
          <<StrSel("y"), IntSel(3)>>}
    ELSE {<<NoneSel>>}
\* column_names: None (given FALSE) or the list passed
NoNames == [given |-> FALSE, names |-> <<>>]
Names(q) == [given |-> TRUE, names |-> q]
ColumnNames ==
    IF scope = "lifecycle" THEN {NoNames, Names(<<"u", "v">>)}
    ELSE IF scope = "data" THEN {NoNames, Names(<<>>), Names(<<"u", "v", "w">>)}
    ELSE {NoNames}

(* An integer-valued argument as Python sees it: typ "int" is the int n,   *)
(* typ "str" is the text of n (a value of the wrong type for ':04d').      *)
IntArgs(S) == [typ : {"int", "str"}, n : S]

RunIdArgs ==
    IF scope = "lifecycle" THEN IntArgs(RunIds) ELSE [typ : {"int"}, n : {7}]
PhaseIdxArgs ==
    IF scope = "lifecycle" THEN IntArgs(PhaseIdxs) ELSE [typ : {"int"}, n : {1}]

\* whether the mkdir of a call succeeds
MkdirOutcomes == IF scope = "files" THEN {TRUE} ELSE BOOLEAN

IdentityArgs ==
    [workstation : Workstations, dut_family : Families, dut_batch : Batches,
     dut_lot : Lots, dut_wafer : Wafers, dut_id : DutIds,
     run_set_id : RunSetIds, run_id : RunIdArgs]

-----------------------------------------------------------------------------
(* Pure helpers *)

top_dir == "top"

\* the empty dict {} of current_run_info
EmptyInfo == [k \in {} |-> ""]

\* pathlib's p / name for a plain relative name
Join(p, name) == p \o "/" \o name

\* str(n) of an int
Str(n) == ToString(n)

\* format(n, "04d"): sign-aware zero padding to width 4
Fmt04d(n) ==
    IF n < 0
    THEN (IF -n < 10 THEN "-00" ELSE IF -n < 100 THEN "-0" ELSE "-") \o Str(-n)
    ELSE (IF n < 10 THEN "000" ELSE IF n < 100 THEN "00"
          ELSE IF n < 1000 THEN "0" ELSE "") \o Str(n)

\* time.strftime("%Y%m%d_%H%M%S", time.localtime()) at clock second t < 60
Timestamp(t) == "20250101_0000" \o (IF t < 10 THEN "0" ELSE "") \o Str(t)

\* a run directory name that leaves the run id out
RunDirName_NoRunId(a, t) ==
    a.dut_id \o "_" \o Timestamp(t) \o "_S" \o Str(a.run_set_id)

\* a run directory name that leaves the run set out
RunDirName_NoSet(a, t) ==
    a.dut_id \o "_" \o Timestamp(t) \o "_RUN" \o Fmt04d(a.run_id.n)

\* run_dir_name of test_run_start
RunDirName(a, t) ==
    a.dut_id \o "_" \o Timestamp(t) \o "_S" \o Str(a.run_set_id)
             \o "_RUN" \o Fmt04d(a.run_id.n)

\* the components appended to top_dir by test_run_start, in order
RunPathParts(a, t) ==
    <<a.workstation, a.dut_family, a.dut_batch, a.dut_lot, a.dut_wafer,
      a.dut_id, RunDirName(a, t)>>

RECURSIVE JoinAll(_, _)
JoinAll(p, parts) ==
    IF parts = <<>> THEN p ELSE JoinAll(Join(p, Head(parts)), Tail(parts))

\* full_path of test_run_start
FullPath(a, t) == JoinAll(top_dir, RunPathParts(a, t))

\* what mkdir(parents=True, exist_ok=True) ensures to exist below base
MkdirChain(base, parts) ==
    {JoinAll(base, SubSeq(parts, 1, k)) : k \in 1..Len(parts)}

\* the dict stored in current_run_info by test_run_start
RunInfo(a) ==
    [workstation |-> a.workstation, dut_family |-> a.dut_family,
     dut_batch |-> a.dut_batch, dut_lot |-> a.dut_lot,
     dut_wafer |-> a.dut_wafer, dut_id |-> a.dut_id,
     run_set_id |-> Str(a.run_set_id), run_id |-> Str(a.run_id.n)]

\* a phase directory whose index is not zero-padded
PhasePath_Unpadded(rd, idx, name) == Join(rd, Str(idx) \o "_" \o name)

\* the phase directory of phase_start
PhasePath(rd, idx, name) == Join(rd, Fmt04d(idx) \o "_" \o name)

-----------------------------------------------------------------------------
(* The tracker as a record, and the two closing methods as functions on it *)

Tracker ==
    [run_dir |-> run_dir, phase_dir |-> phase_dir, cwd |-> cwd,
     current_run_info |-> current_run_info, log |-> <<>>]

\* a phase_end without its guard, sending cwd to top_dir
phase_end_Unguarded(t) ==
    [t EXCEPT !.log = Append(@, "PHASE_END"), !.cwd = top_dir, !.phase_dir = ""]

\* a phase_end that also drops the run identity
phase_end_ClearsInfo(t) ==
    IF t.phase_dir # ""
    THEN [t EXCEPT !.log = Append(@, "PHASE_END"),
                   !.cwd = IF t.run_dir # "" THEN t.run_dir ELSE top_dir,
                   !.phase_dir = "",
                   !.current_run_info = EmptyInfo]
    ELSE t

\* a phase_end that forgets to move cwd
phase_end_KeepsCwd(t) ==
    IF t.phase_dir # ""
    THEN [t EXCEPT !.log = Append(@, "PHASE_END"), !.phase_dir = ""]
    ELSE t

phase_end_of(t) ==
    IF t.phase_dir # ""
    THEN [t EXCEPT !.log = Append(@, "PHASE_END"),
                   !.cwd = IF t.run_dir # "" THEN t.run_dir ELSE top_dir,
                   !.phase_dir = ""]
    ELSE t

\* a run_end that keeps the identity of the ended run
run_end_KeepsInfo(t) ==
    IF t.run_dir # ""
    THEN [t EXCEPT !.log = (IF t.phase_dir # "" THEN Append(@, "PHASE_END") ELSE @)
                           \o <<"RUN_END">>,
                   !.cwd = top_dir,
                   !.phase_dir = "",
                   !.run_dir = ""]
    ELSE t

\* a run_end that does not end the phase first
run_end_SkipsPhase(t) ==
    IF t.run_dir # ""
    THEN [t EXCEPT !.log = Append(@, "RUN_END"),
                   !.cwd = top_dir,
                   !.run_dir = "",
                   !.current_run_info = EmptyInfo]
    ELSE t

run_end_of(t) ==
    LET t1 == phase_end_of(t) IN
    IF t1.run_dir # ""
    THEN [t1 EXCEPT !.log = Append(@, "RUN_END"),
                    !.cwd = top_dir,
                    !.run_dir = "",
                    !.current_run_info = EmptyInfo]
    ELSE t1

\* a phase_start that never refuses
NoActiveRun_Never(t) == FALSE

\* "if not self.run_dir" of phase_start
NoActiveRun(t) == t.run_dir = ""

\* the tracker fields and the log take the values of record t
Becomes(t) ==
    /\ run_dir' = t.run_dir
    /\ phase_dir' = t.phase_dir
    /\ cwd' = t.cwd
    /\ current_run_info' = t.current_run_info
    /\ log' = t.log

Snapshot ==
    [run_dir |-> run_dir, phase_dir |-> phase_dir, cwd |-> cwd,
     current_run_info |-> current_run_info]

NoArgs == [none |-> TRUE]

-----------------------------------------------------------------------------
(* Actions: one per public method *)

\* no file below top_dir yet
NoFiles == [p \in {} |-> [first |-> "", last |-> ""]]

\* the state after UniversalRecorder(top_dir), the callers drawing from scope s
InitIn(s) ==
    /\ run_dir = ""
    /\ phase_dir = ""
    /\ cwd = top_dir
    /\ current_run_info = EmptyInfo
    /\ now = 0
    /\ call = [op |-> "__init__", args |-> NoArgs, ret |-> "None", at |-> 0]
    /\ pre = [run_dir |-> "", phase_dir |-> "", cwd |-> top_dir,
              current_run_info |-> EmptyInfo]
    /\ log = <<>>
    /\ made = {top_dir}
    /\ written = <<>>
    /\ files = NoFiles
    /\ scope = s

Init == InitIn("lifecycle")
InitData == InitIn("data")
InitFiles == InitIn("files")

\* the wall clock advances
Tick ==
    /\ now < MaxTime
    /\ now' = now + 1
    /\ UNCHANGED <<run_dir, phase_dir, cwd, current_run_info, call, pre, log,
                   made, written, files, scope>>

test_run_start ==
    \E a \in IdentityArgs, mkdir_ok \in MkdirOutcomes :
        LET t1 == run_end_of(Tracker)
            full_path == FullPath(a, now)
        IN
        /\ pre' = Snapshot
        /\ written' = <<>>
        /\ UNCHANGED <<now, files, scope>>
        /\ IF a.run_id.typ # "int"
           THEN \* the ':04d' format of line 206 raises ValueError
                /\ Becomes(t1)
                /\ made' = {}
                /\ call' = [op |-> "test_run_start", args |-> a,
                            ret |-> "raise", at |-> now]
           ELSE IF mkdir_ok
           THEN /\ Becomes([t1 EXCEPT !.run_dir = full_path,
                                      !.cwd = full_path,
                                      !.current_run_info = RunInfo(a),
                                      !.log = Append(@, "TEST_RUN_START")])
                /\ made' = MkdirChain(top_dir, RunPathParts(a, now))
                /\ call' = [op |-> "test_run_start", args |-> a,
                            ret |-> "True", at |-> now]
           ELSE /\ Becomes([t1 EXCEPT !.log = Append(@, "ERROR")])
                /\ made' = {}
                /\ call' = [op |-> "test_run_start", args |-> a,
                            ret |-> "False", at |-> now]

run_end ==
    /\ pre' = Snapshot
    /\ Becomes(run_end_of(Tracker))
    /\ made' = {}
    /\ written' = <<>>
    /\ call' = [op |-> "run_end", args |-> NoArgs, ret |-> "None", at |-> now]
    /\ UNCHANGED <<now, files, scope>>

phase_start ==
    \E phase_idx \in PhaseIdxArgs, phase_name \in PhaseNames,
       mkdir_ok \in MkdirOutcomes :
        LET t1 == phase_end_of(Tracker)
            a == [phase_idx |-> phase_idx, phase_name |-> phase_name]
            new_dir == PhasePath(t1.run_dir, phase_idx.n, phase_name)
            result(r) == [op |-> "phase_start", args |-> a, ret |-> r, at |-> now]
        IN
        /\ pre' = Snapshot
        /\ written' = <<>>
        /\ UNCHANGED <<now, files, scope>>
        /\ IF NoActiveRun(t1)
           THEN /\ Becomes([t1 EXCEPT !.log = Append(@, "ERROR")])
                /\ made' = {}
                /\ call' = result("False")
           ELSE IF phase_idx.typ # "int"
           THEN \* the ':04d' format of line 257 raises ValueError
                /\ Becomes(t1)
                /\ made' = {}
                /\ call' = result("raise")
           ELSE IF mkdir_ok
           THEN /\ Becomes([t1 EXCEPT !.phase_dir = new_dir,
                                      !.cwd = new_dir,
                                      !.log = Append(@, "PHASE_START")])
                /\ made' = {new_dir}
                /\ call' = result("True")
           ELSE /\ Becomes([t1 EXCEPT !.log = Append(@, "ERROR")])
                /\ made' = {}
                /\ call' = result("False")

phase_end ==
    /\ pre' = Snapshot
    /\ Becomes(phase_end_of(Tracker))
    /\ made' = {}
    /\ written' = <<>>
    /\ call' = [op |-> "phase_end", args |-> NoArgs, ret |-> "None", at |-> now]
    /\ UNCHANGED <<now, files, scope>>

-----------------------------------------------------------------------------
(* record_complete_dataset and what it calls *)

\* the labels col_0 .. col_{n-1} of line 147
GenericLabels(n) == [i \in 1..n |-> StrSel("col_" \o Str(i - 1))]

\* a table: its column labels and its row count
Table(cols, rows) == [ok |-> TRUE, cols |-> cols, rows |-> rows]
\* the conversion raised
NoTable == [ok |-> FALSE, cols |-> <<>>, rows |-> 0]

\* _parse_txt_file: an empty table without data rows; the header tokens of
\* the file's first line if they are as many as the columns, else col_i
parse_txt_file(d) ==
    IF d.nrows = 0 THEN Table(<<>>, 0)
    ELSE IF d.labels # <<>> /\ Len(d.labels) = d.ncols
    THEN Table(d.labels, d.nrows)
    ELSE Table(GenericLabels(d.ncols), d.nrows)

\* _convert_to_dataframe(data, headers)
convert_to_dataframe(d, headers) ==
    LET relabelled ==
            IF headers # <<>> /\ Len(headers) = d.ncols
            THEN StrLabels(headers) ELSE DefaultLabels(d.ncols)
    IN
    IF d.raises THEN NoTable
    ELSE CASE d.shape = "csv" -> Table(d.labels, d.nrows)
           [] d.shape = "txt" -> parse_txt_file(d)
           [] d.shape = "DataFrame" -> Table(d.labels, d.nrows)
           [] d.shape \in {"ndarray", "rows"} -> Table(relabelled, d.nrows)
           [] d.shape = "list" ->
                IF d.nrows = 0 THEN Table(<<>>, 0)
                ELSE Table(<<StrSel("value")>>, d.nrows)

\* _process_dataframe under the default policies ("fill", auto_detect_types):
\* cells change, the column labels and the number of rows do not
process_dataframe(df) == df

\* int(v) of a selector: defined for ints and for decimal texts
HasInt(sel) == sel.k = "int" \/ (\E d \in 0..9 : Str(d) = sel.s)
IntOf(sel) ==
    IF sel.k = "int" THEN sel.i ELSE CHOOSE d \in 0..9 : Str(d) = sel.s

\* str(v) of a selector or label
StrOf(sel) == IF sel.k = "int" THEN Str(sel.i) ELSE sel.s

\* bool(v): None, 0 and "" are false
Truthy(v) == ~(v.k = "none" \/ (v.k = "int" /\ v.i = 0) \/ (v.k = "str" /\ v.s = ""))

\* a resolution that gives up on a position out of range
Resolve_NoFallback(cols, sel) ==
    LET n == Len(cols) IN
    IF HasInt(sel)
    THEN IF IntOf(sel) >= -n /\ IntOf(sel) < n
         THEN [ok |-> TRUE,
               col |-> cols[IF IntOf(sel) >= 0 THEN IntOf(sel) + 1
                            ELSE n + IntOf(sel) + 1]]
         ELSE [ok |-> FALSE, col |-> NoneSel]
    ELSE IF StrSel(StrOf(sel)) \in Range(cols)
    THEN [ok |-> TRUE, col |-> StrSel(StrOf(sel))]
    ELSE [ok |-> FALSE, col |-> NoneSel]

\* lines 405-411 and 420-426: a selector resolved against df.columns, by
\* position (Python indexing accepts -n..n-1), else as the label str(v)
Resolve(cols, sel) ==
    LET n == Len(cols) IN
    IF HasInt(sel) /\ IntOf(sel) >= -n /\ IntOf(sel) < n
    THEN [ok |-> TRUE,
          col |-> cols[IF IntOf(sel) >= 0 THEN IntOf(sel) + 1
                       ELSE n + IntOf(sel) + 1]]
    ELSE IF StrSel(StrOf(sel)) \in Range(cols)
    THEN [ok |-> TRUE, col |-> StrSel(StrOf(sel))]
    ELSE [ok |-> FALSE, col |-> NoneSel]

\* [q[i] : i in keep], in order
RECURSIVE SelectIdx(_, _, _)
SelectIdx(q, keep, i) ==
    IF i > Len(q) THEN <<>>
    ELSE (IF i \in keep THEN <<q[i]>> ELSE <<>>) \o SelectIdx(q, keep, i + 1)

RECURSIVE Without(_, _)
Without(q, x) ==
    IF q = <<>> THEN <<>>
    ELSE (IF Head(q) = x THEN <<>> ELSE <<Head(q)>>) \o Without(Tail(q), x)

RECURSIVE ResolveAll(_, _)
ResolveAll(cols, sels) ==
    IF sels = <<>> THEN <<>>
    ELSE <<Resolve(cols, Head(sels))>> \o ResolveAll(cols, Tail(sels))

\* ", ".join(labels) of labels that are all strings
RECURSIVE JoinComma(_)
JoinComma(q) ==
    IF Len(q) = 1 THEN q[1].s ELSE q[1].s \o ", " \o JoinComma(Tail(q))

\* how writing a file ends: "ok"; "open" (the file could not be created);
\* "write" (it was created or truncated, and the write then failed)
IoOutcomes == IF scope = "files" THEN {"ok"} ELSE {"ok", "open", "write"}

\* which of n attempted plots create_plot manages to save
Renderings(n) == IF scope = "files" THEN {1..n} ELSE SUBSET (1..n)

\* plot_name of line 432
PlotName(name, x_col, y_col) ==
    name \o "_" \o StrOf(x_col) \o "_vs_" \o StrOf(y_col)

\* the plot file create_plot saves for (name, x_col, y_col) in directory d
PlotPath(d, name, x_col, y_col) == Join(d, PlotName(name, x_col, y_col) \o ".png")

\* a _get_relative_path that gives the path as it stands
get_relative_path_Absolute(p) == p

\* _get_relative_path: the path below top_dir, else the path itself
get_relative_path(p) ==
    LET base == top_dir \o "/" IN
    IF Len(p) > Len(base) /\ SubSeq(p, 1, Len(base)) = base
    THEN SubSeq(p, Len(base) + 1, Len(p))
    ELSE p

\* the result None of a call
NoBundle == [k \in {} |-> ""]

\* an except handler that ends the run before giving up
except_handler_EndsRun(t) ==
    [tracker |-> run_end_of([t EXCEPT !.log = Append(@, "ERROR")]),
     ret |-> "None"]

\* an except handler that logs and lets the exception go on
except_handler_Reraises(t) ==
    [tracker |-> [t EXCEPT !.log = Append(@, "ERROR")], ret |-> "raise"]

\* "except Exception" of lines 498-500: one ERROR entry, the result None
except_handler(t) ==
    [tracker |-> [t EXCEPT !.log = Append(@, "ERROR")], ret |-> "None"]

\* the arguments of a call that passes only what is required, on a file
\* system that answers every write
Plain(name, test_info, environment_info) ==
    [name |-> name, test_info |-> test_info,
     environment_info |-> environment_info,
     data |-> EmptyList, headers |-> <<>>, column_names |-> NoNames,
     testing_variable |-> NoneSel, dependent_variables |-> <<NoneSel>>,
     csv |-> "ok", rendered |-> {}, meta |-> "ok"]

\* lines 383-388: column_names applied to the converted table df0, then
\* the cleaning
Cleaned(in, df0) ==
    process_dataframe(
        IF in.column_names.names # <<>>
        THEN Table(StrLabels(in.column_names.names), df0.rows) ELSE df0)

\* df.empty
IsEmpty(df) == df.cols = <<>> \/ df.rows = 0

\* lines 400-411: the independent variable
SelectX(in, df) ==
    IF IsEmpty(df) THEN [ok |-> TRUE, col |-> NoneSel]
    ELSE IF in.testing_variable = NoneSel THEN [ok |-> TRUE, col |-> df.cols[1]]
    ELSE Resolve(df.cols, in.testing_variable)

\* lines 413-427: the dependent variables, given the independent one
SelectY(in, df, x) ==
    IF IsEmpty(df) THEN [ok |-> TRUE, cols |-> <<>>]
    ELSE IF in.dependent_variables = <<NoneSel>>
    THEN [ok |-> TRUE, cols |-> Without(df.cols, x.col)]
    ELSE [ok |-> \A i \in 1..Len(in.dependent_variables) :
                     Resolve(df.cols, in.dependent_variables[i]).ok,
          cols |-> [i \in 1..Len(in.dependent_variables) |->
                       Resolve(df.cols, in.dependent_variables[i]).col]]

\* "if x_col:" of line 430: the dependent columns a plot is attempted for
Attempted(x, y) == IF Truthy(x.col) THEN y.cols ELSE <<>>

\* a plotting loop that gives up at the first plot that fails
Plots_StopAtFailure(t, in, x_col, att) ==
    LET upto == {i \in 1..Len(att) : (1..i) \subseteq in.rendered} IN
    [paths |-> SelectIdx([i \in 1..Len(att) |->
                             PlotPath(t.cwd, in.name, x_col, att[i])], upto, 1),
     plot_files |->
         SelectIdx([i \in 1..Len(att) |->
                       [filename |-> PlotName(in.name, x_col, att[i]) \o ".png",
                        relative_path |->
                            get_relative_path(
                                PlotPath(t.cwd, in.name, x_col, att[i]))]],
                   upto, 1),
     log |-> [i \in 1..Len(att) |->
                 IF i \in upto THEN "PLOT" ELSE "PLOT_ERROR"]]

\* lines 429-449: the plots of the columns att against x_col, of which the
\* plots numbered in.rendered are saved
Plots(t, in, x_col, att) ==
    [paths |-> SelectIdx([i \in 1..Len(att) |->
                             PlotPath(t.cwd, in.name, x_col, att[i])],
                         in.rendered, 1),
     plot_files |->
         SelectIdx([i \in 1..Len(att) |->
                       [filename |-> PlotName(in.name, x_col, att[i]) \o ".png",
                        relative_path |->
                            get_relative_path(
                                PlotPath(t.cwd, in.name, x_col, att[i]))]],
                   in.rendered, 1),
     log |-> [i \in 1..Len(att) |->
                 IF i \in in.rendered THEN "PLOT" ELSE "PLOT_ERROR"]]

\* a metadata document that always has the identity keys, blank without a run
Metadata_BlankIdentity(t, in, x_col, y_cols, plot_files) ==
    [testing_variable_ids |-> IF Truthy(x_col) THEN x_col ELSE NoneSel,
     dependent_variable_ids |->
         IF y_cols # <<>> THEN StrSel(JoinComma(y_cols)) ELSE NoneSel,
     csv_relative_path |-> get_relative_path(Join(t.cwd, in.name \o ".csv")),
     plot_files |-> plot_files]
    @@ t.current_run_info
    @@ [k \in {"workstation", "dut_family", "dut_batch", "dut_lot",
               "dut_wafer", "dut_id", "run_set_id", "run_id"} |-> ""]

\* a metadata document without the run identity
Metadata_NoIdentity(t, in, x_col, y_cols, plot_files) ==
    [testing_variable_ids |-> IF Truthy(x_col) THEN x_col ELSE NoneSel,
     dependent_variable_ids |->
         IF y_cols # <<>> THEN StrSel(JoinComma(y_cols)) ELSE NoneSel,
     csv_relative_path |-> get_relative_path(Join(t.cwd, in.name \o ".csv")),
     plot_files |-> plot_files]

\* lines 451-483: of the metadata document, the run identity merged in at
\* line 455, the two variable ids, csv_relative_path and plot_files
Metadata(t, in, x_col, y_cols, plot_files) ==
    [testing_variable_ids |-> IF Truthy(x_col) THEN x_col ELSE NoneSel,
     dependent_variable_ids |->
         IF y_cols # <<>> THEN StrSel(JoinComma(y_cols)) ELSE NoneSel,
     csv_relative_path |-> get_relative_path(Join(t.cwd, in.name \o ".csv")),
     plot_files |-> plot_files]
    @@ t.current_run_info

\* what a call shows of its work when it ended at step stage
Seen(stage, df0, df, x, y, att) ==
    [stage |-> stage,
     normalized |-> IF stage = "fields" THEN NoTable ELSE df0,
     df |-> IF stage \in {"fields", "convert", "column_names"}
            THEN NoTable ELSE df,
     x_col |-> IF stage \in {"ids", "metadata", "done"} THEN x.col ELSE NoneSel,
     y_cols |-> IF stage \in {"ids", "metadata", "done"} THEN y.cols ELSE <<>>,
     attempted |-> IF stage \in {"ids", "metadata", "done"} THEN att ELSE <<>>]

\* the call ends in the except handler, having written w and logged l
Failed(t, w, l) ==
    [written |-> w, bundle |-> NoBundle] @@ except_handler([t EXCEPT !.log = l])

\* the steps without the length check of column_names
Stage_SkipsNames(in, df0, x, y) ==
    IF \/ ~(Range(required_test_fields) \subseteq in.test_info)
       \/ ~(Range(required_env_fields) \subseteq in.environment_info)
    THEN "fields"
    ELSE IF ~df0.ok THEN "convert"
    ELSE IF in.csv # "ok" THEN "csv"
    ELSE IF ~x.ok \/ ~y.ok THEN "selectors"
    ELSE IF \E i \in 1..Len(y.cols) : y.cols[i].k # "str" THEN "ids"
    ELSE IF in.meta # "ok" THEN "metadata"
    ELSE "done"

\* the step at which the call ends: the first that raises, else "done"
Stage(in, df0, x, y) ==
    IF \/ ~(Range(required_test_fields) \subseteq in.test_info)
       \/ ~(Range(required_env_fields) \subseteq in.environment_info)
    THEN "fields"
    ELSE IF ~df0.ok THEN "convert"
    ELSE IF /\ in.column_names.names # <<>>
            /\ Len(in.column_names.names) # Len(df0.cols)
    THEN "column_names"
    ELSE IF in.csv # "ok" THEN "csv"
    ELSE IF ~x.ok \/ ~y.ok THEN "selectors"
    ELSE IF \E i \in 1..Len(y.cols) : y.cols[i].k # "str"
    THEN "ids"  \* ", ".join(y_cols) of line 464 raises TypeError
    ELSE IF in.meta # "ok" THEN "metadata"
    ELSE "done"

\* a call that writes metadata.json before the plots
Conclude_MetadataFirst(t, in, stage, df, x, y, plots) ==
    LET csv_path == Join(t.cwd, in.name \o ".csv")
        metadata_path == Join(t.cwd, "metadata.json")
    IN
    CASE stage \in {"fields", "convert", "column_names"} ->
            Failed(t, <<>>, <<>>)
      [] stage = "csv" ->
            Failed(t, IF in.csv = "write" THEN <<csv_path>> ELSE <<>>, <<>>)
      [] stage = "selectors" ->
            Failed(t, <<csv_path>>, <<"CSV">>)
      [] stage = "ids" ->
            Failed(t, <<csv_path>> \o plots.paths, <<"CSV">> \o plots.log)
      [] stage = "metadata" ->
            Failed(t, <<csv_path>>
                      \o (IF in.meta = "write" THEN <<metadata_path>> ELSE <<>>)
                      \o plots.paths,
                   <<"CSV">> \o plots.log)
      [] stage = "done" ->
            [written |-> <<csv_path, metadata_path>> \o plots.paths,
             bundle |-> [csv_path |-> csv_path, dataframe |-> df,
                         plot_files |-> plots.plot_files,
                         metadata_path |-> metadata_path,
                         metadata |-> Metadata(t, in, x.col, y.cols,
                                               plots.plot_files)],
             tracker |-> [t EXCEPT !.log = <<"CSV">> \o plots.log
                                           \o <<"METADATA">>],
             ret |-> "bundle"]

\* what the call ending at step stage has written, logged and returns
Conclude(t, in, stage, df, x, y, plots) ==
    LET csv_path == Join(t.cwd, in.name \o ".csv")
        metadata_path == Join(t.cwd, "metadata.json")
    IN
    CASE stage \in {"fields", "convert", "column_names"} ->
            Failed(t, <<>>, <<>>)
      [] stage = "csv" ->
            Failed(t, IF in.csv = "write" THEN <<csv_path>> ELSE <<>>, <<>>)
      [] stage = "selectors" ->
            Failed(t, <<csv_path>>, <<"CSV">>)
      [] stage = "ids" ->
            Failed(t, <<csv_path>> \o plots.paths, <<"CSV">> \o plots.log)
      [] stage = "metadata" ->
            Failed(t, <<csv_path>> \o plots.paths
                      \o (IF in.meta = "write" THEN <<metadata_path>> ELSE <<>>),
                   <<"CSV">> \o plots.log)
      [] stage = "done" ->
            [written |-> <<csv_path>> \o plots.paths \o <<metadata_path>>,
             bundle |-> [csv_path |-> csv_path, dataframe |-> df,
                         plot_files |-> plots.plot_files,
                         metadata_path |-> metadata_path,
                         metadata |-> Metadata(t, in, x.col, y.cols,
                                               plots.plot_files)],
             tracker |-> [t EXCEPT !.log = <<"CSV">> \o plots.log
                                           \o <<"METADATA">>],
             ret |-> "bundle"]

Plotted(t, in, stage, df0, df, x, y, att) ==
    Seen(stage, df0, df, x, y, att)
    @@ Conclude(t, in, stage, df, x, y,
                IF stage \in {"ids", "metadata", "done"}
                THEN Plots(t, in, x.col, att)
                ELSE [paths |-> <<>>, plot_files |-> <<>>, log |-> <<>>])

Selected(t, in, df0, df, x, y) ==
    Plotted(t, in, Stage(in, df0, x, y), df0, df, x, y, Attempted(x, y))

Converted(t, in, df0, df) ==
    Selected(t, in, df0, df, SelectX(in, df), SelectY(in, df, SelectX(in, df)))

\* the step at which the call with arguments and answers in ends
StageOf(in) ==
    Stage(in, convert_to_dataframe(in.data, in.headers),
          SelectX(in, Cleaned(in, convert_to_dataframe(in.data, in.headers))),
          SelectY(in, Cleaned(in, convert_to_dataframe(in.data, in.headers)),
                  SelectX(in, Cleaned(in, convert_to_dataframe(in.data,
                                                               in.headers)))))

\* the number of plots the call attempts
Attempts(in) ==
    Len(Attempted(
            SelectX(in, Cleaned(in, convert_to_dataframe(in.data, in.headers))),
            SelectY(in, Cleaned(in, convert_to_dataframe(in.data, in.headers)),
                    SelectX(in, Cleaned(in, convert_to_dataframe(in.data,
                                                                 in.headers))))))

\* One call of record_complete_dataset on tracker t.  The record in holds
\* the arguments and the answers of the file system (csv and meta: how the
\* two writes end; rendered: which of the attempted plots are saved).  The
\* steps and their order are those of lines 369-500: required fields,
\* conversion, column_names, cleaning, the table file, the selectors, the
\* plots, the metadata document, metadata.json; the first exception ends
\* the call in the except handler.
Record(t, in) ==
    Converted(t, in, convert_to_dataframe(in.data, in.headers),
              Cleaned(in, convert_to_dataframe(in.data, in.headers)))

\* the files below top_dir after a call named name wrote the files w
Stored(fs, w, name) ==
    [p \in DOMAIN fs \cup Range(w) |->
        IF p \in Range(w)
        THEN [first |-> IF p \in DOMAIN fs THEN fs[p].first ELSE name,
              last |-> name]
        ELSE fs[p]]

\* the call with arguments and answers in takes place
Returns(in) ==
    \E o \in {Record(Tracker, in)} :
    /\ pre' = Snapshot
    /\ made' = {}
    /\ Becomes(o.tracker)
    /\ written' = o.written
    /\ call' = IF scope = "lifecycle"
               THEN [op |-> "record_complete_dataset",
                     args |-> [name |-> in.name], ret |-> o.ret, at |-> now]
               ELSE [op |-> "record_complete_dataset", args |-> in,
                     ret |-> o.ret, at |-> now, stage |-> o.stage,
                     normalized |-> o.normalized, df |-> o.df,
                     x_col |-> o.x_col, y_cols |-> o.y_cols,
                     attempted |-> o.attempted, bundle |-> o.bundle]
    /\ files' = IF scope = "files" THEN Stored(files, o.written, in.name)
                ELSE files
    /\ UNCHANGED <<now, scope>>

\* record_complete_dataset for every choice of arguments and answers; an
\* argument or answer the call does not get to read keeps its plain value
record_complete_dataset ==
    \E name \in DatasetNames, test_info \in TestInfos,
       environment_info \in EnvInfos :
    LET in1 == Plain(name, test_info, environment_info) IN
    IF StageOf(in1) = "fields" THEN Returns(in1)
    ELSE
    \E src \in Sources, column_names \in ColumnNames :
    LET in2 == [in1 EXCEPT !.data = src.data, !.headers = src.headers,
                           !.column_names = column_names] IN
    IF StageOf(in2) \in {"convert", "column_names"}
    THEN Returns(in2)
    ELSE
    \E csv \in IoOutcomes :
    LET in3 == [in2 EXCEPT !.csv = csv] IN
    IF StageOf(in3) = "csv" THEN Returns(in3)
    ELSE
    \E testing_variable \in TestingVariables,
       dependent_variables \in DependentVariables :
    LET in4 == [in3 EXCEPT !.testing_variable = testing_variable,
                           !.dependent_variables = dependent_variables] IN
    IF StageOf(in4) = "selectors" THEN Returns(in4)
    ELSE
    \E rendered \in Renderings(Attempts(in4)) :
    LET in5 == [in4 EXCEPT !.rendered = rendered] IN
    IF StageOf(in5) = "ids" THEN Returns(in5)
    ELSE
    \E meta \in IoOutcomes : Returns([in5 EXCEPT !.meta = meta])

Next ==
    \/ Tick
    \/ test_run_start
    \/ run_end
    \/ phase_start
    \/ phase_end
    \/ record_complete_dataset

Spec == Init /\ [][Next]_vars

\* the method calls alone, the clock standing still
Calls ==
    \/ test_run_start
    \/ run_end
    \/ phase_start
    \/ phase_end
    \/ record_complete_dataset

SpecData == InitData /\ [][Calls]_vars

SpecFiles == InitFiles /\ [][Calls]_vars

-----------------------------------------------------------------------------
(* Helpers of the properties *)

\* the tracker states of section 4.1
Idle == run_dir = "" /\ phase_dir = ""
RunActive == run_dir # "" /\ phase_dir = ""
PhaseActive == run_dir # "" /\ phase_dir # ""

\* four-digit renderings of the indices and run ids of the alphabets
Digits4(n) ==
    CASE n = 1 -> "0001" [] n = 2 -> "0002" [] n = 7 -> "0007"
      [] n = 12 -> "0012"

\* the phase directories a run directory rd can have
PhaseDirsOf(rd) ==
    {rd \o "/" \o Digits4(i) \o "_" \o n : i \in PhaseIdxs, n \in PhaseNames}

\* the log entries with which a call closes what was open before it
ClosingLog(endsRun) ==
    (IF pre.phase_dir # "" THEN <<"PHASE_END">> ELSE <<>>)
    \o (IF endsRun /\ pre.run_dir # "" THEN <<"RUN_END">> ELSE <<>>)

Succeeded(op) == call.op = op /\ call.ret = "True"

-----------------------------------------------------------------------------
(* C1: in every reachable state, whatever calls led to it and whether they *)
(* succeeded or failed, cwd is the phase directory if a phase is open,     *)
(* otherwise the run directory if a run is open, otherwise top_dir.        *)
C1_CwdMostSpecific ==
    cwd = IF phase_dir # "" THEN phase_dir
          ELSE IF run_dir # "" THEN run_dir
          ELSE top_dir

\* a phase_start that failed on its mkdir while another phase was open
C1_Witness ==
    /\ call.op = "phase_start"
    /\ call.ret = "False"
    /\ pre.phase_dir # ""
    /\ cwd = run_dir
    /\ run_dir # ""

(* C2: a phase is open only while a run is open, and it is a phase of that *)
(* run; phase_start and run_end close the phase that was open as their     *)
(* first step (the first log entry of the call is PHASE_END), and after    *)
(* them the only phase that can be open is the one phase_start opened.     *)
C2_PhaseWithinRun ==
    /\ phase_dir # "" => run_dir # "" /\ phase_dir \in PhaseDirsOf(run_dir)
    /\ call.op \in {"phase_start", "run_end"} /\ pre.phase_dir # ""
          => log # <<>> /\ Head(log) = "PHASE_END"
    /\ call.op = "run_end" => phase_dir = ""
    /\ call.op = "phase_start" /\ phase_dir # ""
          => /\ call.ret = "True"
             /\ phase_dir = pre.run_dir \o "/" \o Digits4(call.args.phase_idx.n)
                                       \o "_" \o call.args.phase_name

\* a run_end that found a phase open
C2_Witness ==
    /\ call.op = "run_end"
    /\ pre.phase_dir # ""
    /\ log = <<"PHASE_END", "RUN_END">>

(* C3: after a successful test_run_start, from any state, the call has     *)
(* first ended the open phase and the open run (in that order), no phase   *)
(* is open, run_dir and cwd are top/workstation/family/batch/lot/wafer/    *)
(* dut_id/{dut_id}_{timestamp}_S{set}_RUN{id:04d}, and current_run_info    *)
(* holds the arguments of this call (the two ids as decimal strings).      *)
C3_StartRun ==
    Succeeded("test_run_start") =>
        LET a == call.args IN
        /\ log = ClosingLog(TRUE) \o <<"TEST_RUN_START">>
        /\ phase_dir = ""
        /\ run_dir = top_dir \o "/" \o a.workstation \o "/" \o a.dut_family
                        \o "/" \o a.dut_batch \o "/" \o a.dut_lot
                        \o "/" \o a.dut_wafer \o "/" \o a.dut_id \o "/"
                        \o a.dut_id \o "_" \o Timestamp(call.at) \o "_S"
                        \o ToString(a.run_set_id) \o "_RUN" \o Digits4(a.run_id.n)
        /\ cwd = run_dir
        /\ current_run_info =
              [workstation |-> a.workstation, dut_family |-> a.dut_family,
               dut_batch |-> a.dut_batch, dut_lot |-> a.dut_lot,
               dut_wafer |-> a.dut_wafer, dut_id |-> a.dut_id,
               run_set_id |-> ToString(a.run_set_id),
               run_id |-> ToString(a.run_id.n)]

\* a successful test_run_start that found a phase of another run open
C3_Witness ==
    /\ Succeeded("test_run_start")
    /\ pre.phase_dir # ""
    /\ run_dir # pre.run_dir

(* C4 as stated: whenever test_run_start succeeds while a run R is open,   *)
(* afterwards cwd is neither R's run directory nor a phase directory of R, *)
(* for every identity and start time of the new run.                       *)
C4_OldRunNeverCwd ==
    Succeeded("test_run_start") /\ pre.run_dir # ""
        => cwd # pre.run_dir /\ cwd \notin PhaseDirsOf(pre.run_dir)

\* the clock second at which the run of directory rd was started
SecondOf(rd) ==
    CHOOSE t \in 0..MaxTime : \E a \in IdentityArgs : rd = FullPath(a, t)

(* C4, amended: whenever test_run_start succeeds while a run R is open,    *)
(* afterwards no phase directory of R is cwd, and R's run directory is not *)
(* cwd if the new run's identity differs from R's or the new run starts in *)
(* another clock second than R did.                                        *)
C4_OldRunLeftUnlessSamePath ==
    Succeeded("test_run_start") /\ pre.run_dir # ""
        => /\ cwd \notin PhaseDirsOf(pre.run_dir)
           /\ cwd # pre.phase_dir
           /\ (current_run_info # pre.current_run_info
                  \/ SecondOf(pre.run_dir) # call.at) => cwd # pre.run_dir

\* the same identity started again, a second later, while its phase was open
C4_Witness ==
    /\ Succeeded("test_run_start")
    /\ pre.phase_dir # ""
    /\ current_run_info = pre.current_run_info
    /\ cwd # pre.run_dir

(* C5 as stated: test_run_start never raises, for any arguments and any    *)
(* prior state; a run directory that cannot be created is reported by the  *)
(* return value False together with a log entry.                           *)
C5_StartRunNeverRaises ==
    call.op = "test_run_start"
        => /\ call.ret \in {"True", "False"}
           /\ call.ret = "False" => log # <<>> /\ log[Len(log)] = "ERROR"

(* C6: a successful phase_start(index, name) was called with a run open,   *)
(* has ended the phase that was open (if any) first, has left run_dir and  *)
(* current_run_info unchanged, and leaves a phase open with                *)
(* phase_dir = cwd = {run_dir}/{index:04d}_{name}.                         *)
C6_StartPhase ==
    Succeeded("phase_start") =>
        /\ pre.run_dir # ""
        /\ log = ClosingLog(FALSE) \o <<"PHASE_START">>
        /\ run_dir = pre.run_dir
        /\ current_run_info = pre.current_run_info
        /\ phase_dir = run_dir \o "/" \o Digits4(call.args.phase_idx.n)
                                \o "_" \o call.args.phase_name
        /\ cwd = phase_dir
        /\ made = {phase_dir}

\* a successful phase_start that replaced another open phase
C6_Witness ==
    /\ Succeeded("phase_start")
    /\ pre.phase_dir # ""
    /\ phase_dir # pre.phase_dir

(* C7: phase_start called while no run is open returns False, creates no   *)
(* directory and leaves the tracker Idle with cwd = top_dir and an empty   *)
(* current_run_info.                                                       *)
C7_StartPhaseWithoutRun ==
    call.op = "phase_start" /\ pre.run_dir = ""
        => /\ call.ret = "False"
           /\ made = {}
           /\ Idle
           /\ cwd = top_dir
           /\ current_run_info = EmptyInfo

\* phase_start refused in the Idle state
C7_Witness ==
    /\ call.op = "phase_start"
    /\ pre.run_dir = ""
    /\ call.ret = "False"
    /\ log = <<"ERROR">>

(* C8: after run_end, from any state, the tracker is Idle with an empty    *)
(* current_run_info and cwd = top_dir; after phase_end with a phase open   *)
(* the run is still open, no phase is, cwd = run_dir and run_dir and       *)
(* current_run_info are unchanged.                                         *)
C8_EndRunEndPhase ==
    /\ call.op = "run_end"
          => Idle /\ current_run_info = EmptyInfo /\ cwd = top_dir
    /\ call.op = "phase_end" /\ pre.phase_dir # ""
          => /\ RunActive
             /\ cwd = run_dir
             /\ run_dir = pre.run_dir
             /\ current_run_info = pre.current_run_info
             /\ current_run_info # EmptyInfo

\* a run_end that found a run with an open phase
C8_Witness ==
    /\ call.op = "run_end"
    /\ pre.phase_dir # ""
    /\ pre.current_run_info # EmptyInfo
    /\ Idle

\* the tracker fields of a tracker record
Fields(t) ==
    [run_dir |-> t.run_dir, phase_dir |-> t.phase_dir, cwd |-> t.cwd,
     current_run_info |-> t.current_run_info]

(* C9: run_end with no run open and phase_end with no phase open return    *)
(* normally, log nothing and change none of run_dir, phase_dir, cwd and    *)
(* current_run_info; and in every reachable state a second run_end (or     *)
(* phase_end) in a row changes nothing that the first has left.            *)
C9_EndIsIdempotent ==
    /\ call.op = "run_end" /\ pre.run_dir = ""
          => call.ret = "None" /\ log = <<>> /\ Snapshot = pre
    /\ call.op = "phase_end" /\ pre.phase_dir = ""
          => call.ret = "None" /\ log = <<>> /\ Snapshot = pre
    /\ run_end_of(run_end_of(Tracker)) = run_end_of(Tracker)
    /\ phase_end_of(phase_end_of(Tracker)) = phase_end_of(Tracker)
    /\ Fields(run_end_of(Tracker)) = Snapshot <=> run_dir = ""
    /\ Fields(phase_end_of(Tracker)) = Snapshot <=> phase_dir = ""

\* a phase_end with a run open and no phase open
C9_Witness ==
    /\ call.op = "phase_end"
    /\ pre.phase_dir = ""
    /\ pre.run_dir # ""
    /\ cwd = run_dir

(* C10: current_run_info is non-empty exactly while a run is open, and no  *)
(* phase_start, phase_end or record_complete_dataset call, whatever its    *)
(* outcome, changes current_run_info or run_dir.                           *)
C10_IdentityImmutable ==
    /\ current_run_info # EmptyInfo <=> run_dir # ""
    /\ call.op \in {"phase_start", "phase_end", "record_complete_dataset"}
          => current_run_info = pre.current_run_info /\ run_dir = pre.run_dir

\* a dataset recorded in an open phase
C10_Witness ==
    /\ call.op = "record_complete_dataset"
    /\ call.ret = "bundle"
    /\ phase_dir # ""
    /\ current_run_info # EmptyInfo

-----------------------------------------------------------------------------
(* Helpers of the properties of record_complete_dataset (scopes "data" and  *)
(* "files", where call holds the arguments and the work of the call)       *)

Recorded == call.op = "record_complete_dataset"
Returned == Recorded /\ call.ret = "bundle"

\* the required fields of both dicts were passed
FieldsComplete ==
    /\ \A i \in 1..Len(required_test_fields) :
           required_test_fields[i] \in call.args.test_info
    /\ \A i \in 1..Len(required_env_fields) :
           required_env_fields[i] \in call.args.environment_info

\* the normalized table of the data passed
Normalized == convert_to_dataframe(call.args.data, call.args.headers)

\* a non-empty column_names of another length than the normalized columns
NamesMismatch ==
    /\ call.args.column_names.names # <<>>
    /\ Normalized.ok
    /\ Len(call.args.column_names.names) # Len(Normalized.cols)

\* selector v names no column of the cleaned table, by position or by label
Unresolvable(v) ==
    /\ v # NoneSel
    /\ ~(v.k = "int" /\ v.i >= -Len(call.df.cols) /\ v.i < Len(call.df.cols))
    /\ \A i \in 1..Len(call.df.cols) :
           call.df.cols[i] # [k |-> "str", i |-> 0,
                              s |-> IF v.k = "int" THEN ToString(v.i) ELSE v.s]

(* C11: record_complete_dataset never propagates an exception: whatever the *)
(* arguments and the tracker state, the call returns either the result      *)
(* bundle or None, and every internal failure (bad selector, I/O error,     *)
(* structural error) yields None.                                           *)
C11_RecordNeverRaises ==
    Recorded =>
        /\ call.ret \in {"bundle", "None"}
        /\ call.ret = "bundle" <=> call.stage = "done"
        /\ call.ret = "None" <=> call.bundle = NoBundle
        /\ ~FieldsComplete => call.ret = "None"
        /\ call.args.data.raises => call.ret = "None"
        /\ NamesMismatch => call.ret = "None"
        /\ call.args.csv # "ok" \/ call.args.meta # "ok" => call.ret = "None"
        /\ call.stage = "selectors" => call.ret = "None"

\* a call in an open phase that fails on writing metadata.json
C11_Witness ==
    /\ Recorded
    /\ phase_dir # ""
    /\ call.stage = "metadata"
    /\ call.args.meta = "write"
    /\ call.ret = "None"
    /\ log[Len(log)] = "ERROR"

C13_BadSelectorWritesNothing ==
    /\ Recorded
    /\ call.stage \notin {"fields", "convert", "column_names", "csv"}
    /\ \/ Unresolvable(call.args.testing_variable)
       \/ /\ call.args.dependent_variables # <<NoneSel>>
          /\ \E i \in 1..Len(call.args.dependent_variables) :
                 Unresolvable(call.args.dependent_variables[i])
    => call.ret = "None" /\ written = <<>>

(* C14: record_complete_dataset, whether it succeeds or fails, leaves       *)
(* run_dir, phase_dir, cwd and current_run_info unchanged.                  *)
C14_RecordKeepsTracker ==
    Recorded => Snapshot = pre

\* a failed call while a run is open
C14_Witness ==
    /\ Recorded
    /\ call.ret = "None"
    /\ run_dir # ""
    /\ pre.run_dir = run_dir
    /\ current_run_info # EmptyInfo

\* str(v) of a label
Text(v) == IF v.k = "int" THEN ToString(v.i) ELSE v.s

\* the file name of the plot of column y against column x for dataset name
PngOf(name, x, y) == name \o "_" \o Text(x) \o "_vs_" \o Text(y) \o ".png"

(* C15: every successful call has written into the cwd of the call exactly  *)
(* one table file {name}.csv and one metadata.json; each plot descriptor    *)
(* names a file {name}_{independent}_vs_{dependent}.png of that directory;  *)
(* csv_path and metadata_path of the bundle are those two files, and        *)
(* csv_relative_path is the table file's path relative to top_dir.          *)
C15_SuccessWritesTheBundle ==
    Returned =>
        LET b == call.bundle
            name == call.args.name
            pngs == {PngOf(name, call.x_col, call.y_cols[i]) :
                        i \in 1..Len(call.y_cols)}
        IN
        /\ b.csv_path = cwd \o "/" \o name \o ".csv"
        /\ b.metadata_path = cwd \o "/metadata.json"
        /\ Cardinality({i \in 1..Len(written) : written[i] = b.csv_path}) = 1
        /\ Cardinality({i \in 1..Len(written) : written[i] = b.metadata_path}) = 1
        /\ \A i \in 1..Len(b.plot_files) :
               /\ b.plot_files[i].filename \in pngs
               /\ cwd \o "/" \o b.plot_files[i].filename \in Range(written)
               /\ top_dir \o "/" \o b.plot_files[i].relative_path
                      = cwd \o "/" \o b.plot_files[i].filename
        /\ \A i \in 1..Len(written) :
               \/ written[i] \in {b.csv_path, b.metadata_path}
               \/ \E j \in 1..Len(b.plot_files) :
                      written[i] = cwd \o "/" \o b.plot_files[j].filename
        /\ top_dir \o "/" \o b.metadata.csv_relative_path = b.csv_path
        /\ b.metadata.plot_files = b.plot_files

\* a dataset with two plots recorded in an open phase
C15_Witness ==
    /\ Returned
    /\ phase_dir # ""
    /\ cwd = phase_dir
    /\ Len(call.bundle.plot_files) = 2
    /\ Len(written) = 4

(* C16: if rendering fails for some dependent variables, the call still     *)
(* attempts every remaining chart, still writes metadata.json and returns   *)
(* a bundle (no other step failing), and plot_files holds exactly the       *)
(* descriptors of the charts that rendered, in dependent-variable order.    *)
C16_FailedPlotsAreSkipped ==
    /\ Recorded
    /\ call.stage \in {"metadata", "done"}
    /\ call.attempted # <<>>
    /\ call.args.rendered # 1..Len(call.attempted)
    =>
    LET n == Len(call.attempted)
        pngs == [i \in 1..n |->
                    PngOf(call.args.name, call.x_col, call.attempted[i])]
    IN
    /\ call.attempted = call.y_cols
    /\ Len(log) = n + 2
    /\ \A i \in 1..n :
           log[i + 1] = IF i \in call.args.rendered THEN "PLOT" ELSE "PLOT_ERROR"
    /\ call.args.meta = "ok" =>
           /\ call.ret = "bundle"
           /\ cwd \o "/metadata.json" \in Range(written)
    /\ call.ret = "bundle" =>
           [i \in 1..Len(call.bundle.plot_files) |->
               call.bundle.plot_files[i].filename]
               = SelectIdx(pngs, call.args.rendered, 1)

\* the first of two plots fails, the second is rendered and described
C16_Witness ==
    /\ Returned
    /\ Len(call.attempted) = 2
    /\ call.args.rendered = {2}
    /\ Len(call.bundle.plot_files) = 1
    /\ log = <<"CSV", "PLOT_ERROR", "PLOT", "METADATA">>

(* C17: with no selectors passed and a non-empty cleaned table, for every   *)
(* supported input shape (matrices and row sequences without column names   *)
(* included), the independent variable is the first column, the dependent   *)
(* variables are all other columns, one chart is attempted per dependent    *)
(* column, testing_variable_ids names the first column, and the call        *)
(* succeeds (no write failing).                                             *)
C17_DefaultSelectors ==
    /\ Recorded
    /\ call.stage \notin {"fields", "convert", "column_names", "csv"}
    /\ call.args.meta = "ok"
    /\ call.args.testing_variable = NoneSel
    /\ call.args.dependent_variables = <<NoneSel>>
    /\ call.df.cols # <<>>
    /\ call.df.rows > 0
    =>
    /\ call.ret = "bundle"
    /\ call.x_col = call.df.cols[1]
    /\ call.y_cols = Tail(call.df.cols)
    /\ Len(call.attempted) = Len(call.df.cols) - 1
    /\ call.bundle.metadata.testing_variable_ids = call.df.cols[1]

(* C18: writes are create-only per dataset name: for any two successful     *)
(* calls with different names, in the same or in different phases, every    *)
(* file written by the first still holds the first call's content after     *)
(* the second.  (In scope "files" every call succeeds, and the content of   *)
(* a file is told by the name of the call that wrote it.)                   *)
C18_FilesKeepFirstContent ==
    \A p \in DOMAIN files : files[p].last = files[p].first

\* the keys of the run identity
IdentityKeys ==
    {"workstation", "dut_family", "dut_batch", "dut_lot", "dut_wafer",
     "dut_id", "run_set_id", "run_id"}

\* a are the arguments of the successful test_run_start that opened the run
\* now open: the only call that sets run_dir, to the directory of its
\* arguments (C3)
Opened(a) == \E t \in 0..MaxTime : run_dir = FullPath(a, t)

\* a Python value with its type: the str s, the int n
PyStr(s) == [typ |-> "str", text |-> s]
PyInt(n) == [typ |-> "int", text |-> ToString(n)]

(* C19, as stated: the metadata document of a successful call during an     *)
(* open run contains the run identity fields with exactly the values        *)
(* passed to the most recent successful test_run_start.                     *)
C19_MetadataHoldsPassedValues ==
    Returned /\ run_dir # "" =>
        \A a \in IdentityArgs : Opened(a) =>
            LET m == call.bundle.metadata IN
            /\ IdentityKeys \subseteq DOMAIN m
            /\ m.workstation = a.workstation
            /\ m.dut_family = a.dut_family
            /\ m.dut_batch = a.dut_batch
            /\ m.dut_lot = a.dut_lot
            /\ m.dut_wafer = a.dut_wafer
            /\ m.dut_id = a.dut_id
            /\ PyStr(m.run_set_id) = PyInt(a.run_set_id)
            /\ PyStr(m.run_id) = PyInt(a.run_id.n)

(* C19, amended: the metadata document of a successful call during an open  *)
(* run contains the run identity fields of the most recent successful       *)
(* test_run_start, never those of an earlier, ended run: the six string     *)
(* fields as passed, run_set_id and run_id as the decimal strings of the    *)
(* ints passed.                                                             *)
C19_MetadataCarriesOpenRun ==
    Returned /\ run_dir # "" =>
        /\ \E a \in IdentityArgs : Opened(a)
        /\ \A a \in IdentityArgs : Opened(a) =>
               LET m == call.bundle.metadata IN
               /\ IdentityKeys \subseteq DOMAIN m
               /\ m.workstation = a.workstation
               /\ m.dut_family = a.dut_family
               /\ m.dut_batch = a.dut_batch
               /\ m.dut_lot = a.dut_lot
               /\ m.dut_wafer = a.dut_wafer
               /\ m.dut_id = a.dut_id
               /\ m.run_set_id = ToString(a.run_set_id)
               /\ m.run_id = ToString(a.run_id.n)

\* a dataset recorded in a phase of the run of device D2
C19_Witness ==
    /\ Returned
    /\ phase_dir # ""
    /\ call.bundle.metadata.dut_id = "D2"
    /\ call.bundle.metadata.run_id = "7"
    /\ current_run_info.dut_id = "D2"

(* C20: for every input shape that can arrive without column names (a 2-D   *)
(* matrix, a sequence of sequences, a whitespace-delimited text file), when *)
(* no header list is supplied or its length differs from the column count,  *)
(* the normalized columns are named col_0 .. col_{n-1}.                     *)
C20_UnnamedColumnsAreGeneric ==
    /\ Recorded
    /\ call.stage # "fields"
    /\ call.args.data.shape \in {"ndarray", "rows", "txt"}
    /\ call.args.data.labels = <<>>
    /\ \/ call.args.headers = <<>>
       \/ Len(call.args.headers) # call.args.data.ncols
    =>
    call.normalized.cols =
        [i \in 1..call.args.data.ncols |->
            [k |-> "str", i |-> 0, s |-> "col_" \o ToString(i - 1)]]

(* C28: a test_run_start whose directory creation fails leaves the tracker *)
(* Idle whatever the state before: an open phase and an open run have been *)
(* ended, run_dir and the run identity are empty and cwd = top_dir; the    *)
(* previous run is not restored.                                           *)
C28_FailedStartLeavesIdle ==
    call.op = "test_run_start" /\ call.ret = "False" =>
        /\ run_dir = ""
        /\ phase_dir = ""
        /\ cwd = top_dir
        /\ current_run_info = EmptyInfo
        /\ made = {}
        /\ log = ClosingLog(TRUE) \o <<"ERROR">>

\* the mkdir of a new run fails while a phase of another run is open
C28_Witness ==
    /\ call.op = "test_run_start"
    /\ call.ret = "False"
    /\ pre.phase_dir # ""
    /\ pre.run_dir # ""
    /\ pre.current_run_info # EmptyInfo
    /\ run_dir = ""
    /\ log = <<"PHASE_END", "RUN_END", "ERROR">>

\* the call got to resolve its selectors against a non-empty cleaned table
Selecting ==
    /\ Recorded
    /\ call.stage \in {"selectors", "ids", "metadata", "done"}
    /\ ~IsEmpty(call.df)

\* selector v is an integer position at or beyond the column count
Beyond(v) == v.k = "int" /\ v.i >= Len(call.df.cols)

\* the column label that is the decimal text of the position of selector v
Literal(v) == [k |-> "str", i |-> 0, s |-> ToString(v.i)]

ValidInputs ==
    /\ FieldsComplete
    /\ Normalized.ok
    /\ ~NamesMismatch
    /\ call.args.csv = "ok"
    /\ call.args.meta = "ok"
    /\ \A i \in 1..Len(call.df.cols) : call.df.cols[i].k = "str"
    /\ ~Unresolvable(call.args.testing_variable)
    /\ \A i \in 1..Len(call.args.dependent_variables) :
           ~Unresolvable(call.args.dependent_variables[i])

(* C29: record_complete_dataset in the Idle state (no run open, as after a  *)
(* failed test_run_start whose result the caller ignored) with valid inputs *)
(* succeeds: it returns the bundle, writes {name}.csv, the plots and        *)
(* metadata.json directly into top_dir, and the metadata document has none  *)
(* of the run identity fields.                                              *)
C29_IdleRecordGoesToTopDir ==
    Recorded /\ pre.run_dir = "" /\ ValidInputs =>
        /\ call.ret = "bundle"
        /\ call.stage = "done"
        /\ cwd = top_dir
        /\ current_run_info = EmptyInfo
        /\ written[1] = top_dir \o "/" \o call.args.name \o ".csv"
        /\ written[Len(written)] = top_dir \o "/metadata.json"
        /\ call.bundle.csv_path = written[1]
        /\ call.bundle.metadata_path = written[Len(written)]
        /\ \A i \in 1..Len(call.bundle.plot_files) :
               /\ top_dir \o "/" \o call.bundle.plot_files[i].filename
                      \in Range(written)
               /\ call.bundle.plot_files[i].relative_path
                      = call.bundle.plot_files[i].filename
        /\ call.bundle.metadata.csv_relative_path = call.args.name \o ".csv"
        /\ IdentityKeys \cap DOMAIN call.bundle.metadata = {}

\* a dataset with two plots recorded while no run is open
C29_Witness ==
    /\ Returned
    /\ ValidInputs
    /\ pre.run_dir = ""
    /\ run_dir = ""
    /\ cwd = top_dir
    /\ Len(written) = 4
    /\ written[1] = "top/iv.csv"
    /\ written[4] = "top/metadata.json"

\* the places of path p among the files the last call wrote, in order
Places(p) == {i \in 1..Len(written) : written[i] = p}

\* the table file is the first file written, metadata.json the last, and
\* every plot file the returned metadata names lies between the two
TableThenPlotsThenMetadata ==
    Recorded /\ Places(cwd \o "/metadata.json") # {} =>
        /\ Places(cwd \o "/" \o call.args.name \o ".csv") = {1}
        /\ Places(cwd \o "/metadata.json") = {Len(written)}
        /\ Len(written) >= 2
        /\ Returned =>
               \A i \in 1..Len(call.bundle.metadata.plot_files) :
                   \E j \in 2..(Len(written) - 1) :
                       written[j] = cwd \o "/"
                           \o call.bundle.metadata.plot_files[i].filename

(* C30, as stated: the table file is written first, then the plot files,    *)
(* then metadata.json, so when a call has written metadata.json the table   *)
(* file and every plot file the metadata names were written earlier in the  *)
(* same call, and a call that fails after the table write leaves no         *)
(* metadata.json written by that call.                                      *)
C30_FailureLeavesNoMetadata ==
    /\ TableThenPlotsThenMetadata
    /\ Recorded /\ call.ret = "None"
           /\ Places(cwd \o "/" \o call.args.name \o ".csv") # {}
       => Places(cwd \o "/metadata.json") = {}

(* C30, amended: the table file is written first, then the plot files, then *)
(* metadata.json, so when a call has written metadata.json the table file   *)
(* and every plot file the metadata names were written earlier in the same  *)
(* call; a call that fails after the table write has written metadata.json  *)
(* only if the failure is that of the dump into metadata.json, after the    *)
(* file was opened for writing.                                             *)
C30_MetadataIsWrittenLast ==
    /\ TableThenPlotsThenMetadata
    /\ Recorded /\ call.ret = "None"
           /\ Places(cwd \o "/" \o call.args.name \o ".csv") # {}
       => (Places(cwd \o "/metadata.json") # {}
              <=> call.stage = "metadata" /\ call.args.meta = "write")

\* a successful call with two plots between the table file and metadata.json
C30_Witness ==
    /\ Returned
    /\ Len(written) = 4
    /\ Len(call.bundle.metadata.plot_files) = 2
    /\ written[1] = cwd \o "/" \o call.args.name \o ".csv"
    /\ written[4] = cwd \o "/metadata.json"

\* the dump into metadata.json fails after the table file and a plot
C30_FailedDump ==
    /\ Recorded
    /\ call.ret = "None"
    /\ call.stage = "metadata"
    /\ call.args.meta = "write"
    /\ Len(written) >= 3
    /\ written[Len(written)] = cwd \o "/metadata.json"

-----------------------------------------------------------------------------
(* The tables cell by cell (scope "cells"): _convert_to_dataframe,          *)
(* _parse_txt_file, _process_dataframe and _generate_basic_statistics as    *)
(* functions of the cells they are given.  A number is a fraction n/d in    *)
(* lowest terms, so that the mean of integers is exact.                     *)

\* the bounds of the tables drawn in scope "cells"
MaxLen == 2
MaxLines == 3

\* a cell: the number n/d, the str s, a missing value (None or NaN), or a
\* Python list of n elements held in one cell
Number(n) == [k |-> "num", n |-> n, d |-> 1, s |-> ""]
Word(s) == [k |-> "str", n |-> 0, d |-> 1, s |-> s]
Missing == [k |-> "nan", n |-> 0, d |-> 1, s |-> ""]
ListCell(len) == [k |-> "list", n |-> len, d |-> 1, s |-> ""]

\* the sequences over S of length lo to hi
SeqsOf(S, lo, hi) == UNION {[1..m -> S] : m \in lo..hi}

\* a table with its cells: column labels, the dtype of each column ("num"
\* for a numeric dtype, "obj" for object) and the rows
Grid(cols, dtypes, rows) ==
    [ok |-> TRUE, cols |-> cols, dtypes |-> dtypes, rows |-> rows]
\* the conversion raised
NoGrid == [ok |-> FALSE, cols |-> <<>>, dtypes |-> <<>>, rows |-> <<>>]
\* pd.DataFrame(): no column, no row
EmptyGrid == Grid(<<>>, <<>>, <<>>)

\* column j of rows, top to bottom
Column(rows, j) == [i \in 1..Len(rows) |-> rows[i][j]]

\* the dtype pandas infers for a column built from Python objects: numeric
\* when it holds numbers and possibly missing values, else object
InferDtype(cells) ==
    IF /\ \E i \in 1..Len(cells) : cells[i].k = "num"
       /\ \A i \in 1..Len(cells) : cells[i].k \in {"num", "nan"}
    THEN "num" ELSE "obj"

\* pd.DataFrame(rows) with the labels cols, of width Len(cols)
Inferred(cols, rows) ==
    Grid(cols, [j \in 1..Len(cols) |-> InferDtype(Column(rows, j))], rows)

\* the data argument with its cells, by its shape: "scalar" (rows holds the
\* one value), "scalars" (a list of scalars, one per row), "rows" (a list of
\* lists), "records" (a list of dicts with the keys names), "ndarray",
\* "DataFrame" (columns names), "dict" (keys names; rows[i] holds the value
\* of key i, a list when i is in lists, else the one scalar), "txt" and
\* "file" (an existing .txt file, a file of another suffix but .csv, with
\* the lines names)
Value(shape, names, rows, lists) ==
    [shape |-> shape, names |-> names, rows |-> rows, lists |-> lists]

\* the greatest common divisor of the naturals a and b
RECURSIVE Gcd(_, _)
Gcd(a, b) == IF b = 0 THEN a ELSE Gcd(b, a % b)

Abs(n) == IF n < 0 THEN -n ELSE n

\* the number n/d (d > 0) in lowest terms
Fraction(n, d) ==
    [k |-> "num", n |-> n \div Gcd(Abs(n), d), d |-> d \div Gcd(Abs(n), d),
     s |-> ""]

\* character i of the string s
Char(s, i) == SubSeq(s, i, i)

IsSpace(c) == c \in {" ", "\t"}

\* s.lstrip() and s.strip()
RECURSIVE lstrip(_)
lstrip(s) ==
    IF s # "" /\ IsSpace(Char(s, 1)) THEN lstrip(SubSeq(s, 2, Len(s))) ELSE s
RECURSIVE rstrip(_)
rstrip(s) ==
    IF s # "" /\ IsSpace(Char(s, Len(s)))
    THEN rstrip(SubSeq(s, 1, Len(s) - 1)) ELSE s
strip(s) == rstrip(lstrip(s))

\* s.split(): the maximal runs of characters that are not whitespace, read
\* from character i on, cur being the run read so far
RECURSIVE SplitFrom(_, _, _)
SplitFrom(s, i, cur) ==
    IF i > Len(s) THEN (IF cur = "" THEN <<>> ELSE <<cur>>)
    ELSE IF IsSpace(Char(s, i))
    THEN (IF cur = "" THEN <<>> ELSE <<cur>>) \o SplitFrom(s, i + 1, "")
    ELSE SplitFrom(s, i + 1, cur \o Char(s, i))
split(s) == SplitFrom(s, 1, "")

\* the decimal digits, character i + 1 being the digit of value i
Digits == "0123456789"
IsDigits(s) ==
    /\ s # ""
    /\ \A i \in 1..Len(s) : \E v \in 0..9 : Char(s, i) = Char(Digits, v + 1)
DigitValue(c) == CHOOSE v \in 0..9 : Char(Digits, v + 1) = c
RECURSIVE Decimal(_)
Decimal(s) ==
    IF s = "" THEN 0
    ELSE 10 * Decimal(SubSeq(s, 1, Len(s) - 1)) + DigitValue(Char(s, Len(s)))
RECURSIVE Pow10(_)
Pow10(e) == IF e = 0 THEN 1 ELSE 10 * Pow10(e - 1)

\* the places of "." in s
Dots(s) == {i \in 1..Len(s) : Char(s, i) = "."}

\* the text s read as an unsigned decimal literal, digits or digits.digits
IsUnsigned(s) ==
    \/ IsDigits(s)
    \/ /\ Cardinality(Dots(s)) = 1
       /\ \E i \in Dots(s) : /\ IsDigits(SubSeq(s, 1, i - 1))
                             /\ IsDigits(SubSeq(s, i + 1, Len(s)))
Unsigned(s) ==
    IF IsDigits(s) THEN Fraction(Decimal(s), 1)
    ELSE LET i == CHOOSE i \in Dots(s) : TRUE IN
         Fraction(Decimal(SubSeq(s, 1, i - 1)) * Pow10(Len(s) - i)
                      + Decimal(SubSeq(s, i + 1, Len(s))),
                  Pow10(Len(s) - i))

\* float(s) of the literals met here: an optional sign before an unsigned
\* decimal, or nan; ok is whether float(s) returns, value what it returns
float(s) ==
    IF s = "nan" THEN [ok |-> TRUE, value |-> Missing]
    ELSE IF IsUnsigned(s) THEN [ok |-> TRUE, value |-> Unsigned(s)]
    ELSE IF Len(s) > 1 /\ Char(s, 1) \in {"-", "+"}
            /\ IsUnsigned(SubSeq(s, 2, Len(s)))
    THEN [ok |-> TRUE,
          value |-> LET u == Unsigned(SubSeq(s, 2, Len(s))) IN
                    IF Char(s, 1) = "-" THEN [u EXCEPT !.n = -u.n] ELSE u]
    ELSE [ok |-> FALSE, value |-> Missing]

\* _is_numeric(value), lines 154-160
is_numeric(value) == float(value).ok

\* pd.to_numeric(errors='coerce') of one cell: a number stays, text that
\* reads as a number becomes it, everything else is missing
to_numeric(c) ==
    IF c.k = "num" THEN c
    ELSE IF c.k = "str" THEN float(strip(c.s)).value
    ELSE Missing

\* line 121: the lines that are neither blank nor comments
IsKept(line) == strip(line) # "" /\ Char(lstrip(line), 1) # "#"
Kept(raw_lines) == SelectSeq(raw_lines, IsKept)

\* a header test that wants every token of the first line to be text
header_detected_All(first_tokens) ==
    \A i \in 1..Len(first_tokens) : ~is_numeric(first_tokens[i])

\* line 126: the first line is a header when some token is not numeric
header_detected(first_tokens) ==
    \E i \in 1..Len(first_tokens) : ~is_numeric(first_tokens[i])

\* the largest of the naturals in the non-empty set S
Largest(S) == CHOOSE m \in S : \A n \in S : n <= m

\* lines 139-140: rows padded on the right with NaN to the longest row
padded_rows(data_rows) ==
    [i \in 1..Len(data_rows) |->
        [j \in 1..Largest({Len(data_rows[r]) : r \in 1..Len(data_rows)}) |->
            IF j <= Len(data_rows[i]) THEN Word(data_rows[i][j]) ELSE Missing]]

\* lines 142-152: the table of the padded rows, under the header tokens if
\* they are as many as the columns, else under col_i; every column numeric
txt_dataframe(headers, rows) ==
    Grid(IF headers # <<>> /\ Len(headers) = Len(rows[1])
         THEN StrLabels(headers) ELSE GenericLabels(Len(rows[1])),
         [j \in 1..Len(rows[1]) |-> "num"],
         [i \in 1..Len(rows) |->
             [j \in 1..Len(rows[1]) |-> to_numeric(rows[i][j])]])

\* what _parse_txt_file has read: the lines kept, whether the first is a
\* header, the padded rows and the table returned
Parsed(lines, header, padded, df) ==
    [lines |-> lines, header_detected |-> header, padded_rows |-> padded,
     df |-> df]

\* lines 135-152, given the header tokens (<<>> for None) and the data lines
parse_data_lines(lines, headers, data_lines) ==
    IF data_lines = <<>>
    THEN Parsed(lines, headers # <<>>, <<>>, EmptyGrid)
    ELSE Parsed(lines, headers # <<>>,
                padded_rows([i \in 1..Len(data_lines) |-> split(data_lines[i])]),
                txt_dataframe(headers,
                    padded_rows([i \in 1..Len(data_lines) |->
                                    split(data_lines[i])])))

\* lines 122-133, given the lines kept
parse_lines(lines) ==
    IF lines = <<>> THEN Parsed(lines, FALSE, <<>>, EmptyGrid)
    ELSE IF header_detected(split(lines[1]))
    THEN parse_data_lines(lines, split(lines[1]), Tail(lines))
    ELSE parse_data_lines(lines, <<>>, lines)

\* _parse_txt_file of a file with the lines raw_lines
parse_txt_cells(raw_lines) == parse_lines(Kept(raw_lines))

\* line 100: a dict whose values are not all lists is one record, a value
\* that is a list filling one cell; a dict of lists is a dict of columns,
\* which pandas refuses when the lists differ in length
dict_to_dataframe(v) ==
    LET keys == 1..Len(v.names) IN
    IF v.lists # keys
    THEN Inferred(StrLabels(v.names),
                  << [i \in keys |-> IF i \in v.lists
                                     THEN ListCell(Len(v.rows[i]))
                                     ELSE v.rows[i][1]] >>)
    ELSE IF \E i, j \in keys : Len(v.rows[i]) # Len(v.rows[j])
    THEN NoGrid
    ELSE IF keys = {} THEN EmptyGrid
    ELSE Inferred(StrLabels(v.names),
                  [r \in 1..Len(v.rows[1]) |-> [i \in keys |-> v.rows[i][r]]])

\* lines 101-112: a list or tuple, by what its first element is
list_to_dataframe(v, headers) ==
    IF v.rows = <<>> THEN EmptyGrid
    ELSE CASE v.shape = "records" -> Inferred(StrLabels(v.names), v.rows)
           [] v.shape = "rows" ->
                Inferred(IF headers # <<>> /\ Len(headers) = Len(v.rows[1])
                         THEN StrLabels(headers)
                         ELSE DefaultLabels(Len(v.rows[1])),
                         v.rows)
           [] v.shape = "scalars" -> Inferred(<<StrSel("value")>>, v.rows)

\* _convert_to_dataframe(data, headers), cell by cell
convert_cells(v, headers) ==
    CASE v.shape = "txt" -> parse_txt_cells(v.names).df
      [] v.shape = "file" ->
            Inferred(<<StrSel("value")>>,
                     [i \in 1..Len(v.names) |-> <<Word(v.names[i])>>])
      [] v.shape = "DataFrame" -> Inferred(StrLabels(v.names), v.rows)
      [] v.shape = "ndarray" ->
            Inferred(IF headers # <<>> /\ Len(headers) = Len(v.rows[1])
                     THEN StrLabels(headers)
                     ELSE DefaultLabels(Len(v.rows[1])),
                     v.rows)
      [] v.shape = "dict" -> dict_to_dataframe(v)
      [] v.shape \in {"records", "rows", "scalars"} ->
            list_to_dataframe(v, headers)
      [] v.shape = "scalar" -> Inferred(<<StrSel("value")>>, v.rows)

\* the scalars and the rows passed as data
Scalars == {Number(1), Number(2), Word("a")}
Pairs == {<<Number(1), Number(2)>>, <<Number(2), Word("a")>>}

\* the values of the keys of a dict: a scalar, or a list of up to MaxLen
\* scalars, as [list, items]
DictValues ==
    {[list |-> FALSE, items |-> <<c>>] : c \in {Number(1), Word("a")}}
    \cup {[list |-> TRUE, items |-> q] :
             q \in SeqsOf({Number(1)}, 0, MaxLen)}

\* the dict with the keys names and the values vals
Dict(names, vals) ==
    Value("dict", names, [i \in 1..Len(names) |-> vals[i].items],
          {i \in 1..Len(names) : vals[i].list})

\* the data passed to _convert_to_dataframe in scope "cells"
Values ==
    {Value("scalar", <<>>, <<<<c>>>>, {}) : c \in Scalars}
    \cup {Value("scalars", <<>>, [i \in 1..Len(q) |-> <<q[i]>>], {}) :
             q \in SeqsOf(Scalars, 0, MaxLen)}
    \cup {Value("rows", <<>>, q, {}) : q \in SeqsOf(Pairs, 0, MaxLen)}
    \cup {Value("records", <<"a", "b">>, q, {}) : q \in SeqsOf(Pairs, 1, MaxLen)}
    \cup {Value("ndarray", <<>>, q, {}) :
             q \in SeqsOf({<<Number(1), Number(2)>>}, 1, MaxLen)}
    \cup {Value("DataFrame", <<"x", "y">>, q, {}) : q \in SeqsOf(Pairs, 0, MaxLen)}
    \cup {Value(shape, q, <<>>, {}) :
             shape \in {"txt", "file"},
             q \in {<<>>, <<"x y", "1 2">>, <<"1 2", "3">>}}
    \cup {Dict(<<>>, <<>>)}
    \cup {Dict(<<"a">>, <<x>>) : x \in DictValues}
    \cup {Dict(<<"a", "b">>, <<x, y>>) : x, y \in DictValues}

\* the headers passed: none, of the width of the rows, of another width
HeaderLists == {<<>>, <<"p", "q">>, <<"p">>}

\* what a call in scope "cells" leaves alone: the tracker and the files
CellsUnchanged ==
    UNCHANGED <<run_dir, phase_dir, cwd, current_run_info, now, pre, log,
                made, written, files, scope>>

\* the arguments a waiting for the private method fn to be applied to them
Input(fn, a) == [op |-> "input", fn |-> fn, args |-> a, at |-> 0]

\* _convert_to_dataframe(data, headers) applied to the arguments drawn
convert_to_dataframe_call ==
    /\ call.op = "input"
    /\ call.fn = "_convert_to_dataframe"
    /\ call' = [op |-> "_convert_to_dataframe", args |-> call.args,
                ret |-> convert_cells(call.args.data, call.args.headers),
                at |-> now]
    /\ CellsUnchanged

\* the lines of the text files parsed in scope "cells"
Lines ==
    {"", "  ", "# c", " # c", "x y", "1 a", "1 2", "3", "-1 2.5", "nan  4 5 "}

\* _parse_txt_file(path) applied to the file drawn
parse_txt_file_call ==
    /\ call.op = "input"
    /\ call.fn = "_parse_txt_file"
    /\ \E o \in {parse_txt_cells(call.args.raw_lines)} :
           call' = [op |-> "_parse_txt_file", args |-> call.args,
                    lines |-> o.lines, header_detected |-> o.header_detected,
                    padded_rows |-> o.padded_rows, ret |-> o.df, at |-> now]
    /\ CellsUnchanged

\* the missing values of a column, and its values that are not missing
IsNa(c) == c.k = "nan"
NotNa(c) == c.k # "nan"
Present(cells) == SelectSeq(cells, NotNa)

\* the sum of the numbers cells
RECURSIVE SumOf(_)
SumOf(cells) ==
    IF cells = <<>> THEN Number(0)
    ELSE LET a == Head(cells)
             b == SumOf(Tail(cells))
         IN Fraction(a.n * b.d + b.n * a.d, a.d * b.d)

\* a mean over all the rows, the missing values counting as zero
mean_OfAllRows(cells) ==
    IF Present(cells) = <<>> THEN Missing
    ELSE Fraction(SumOf(Present(cells)).n,
                  SumOf(Present(cells)).d * Len(cells))

\* Series.mean(): the mean of the values present, NaN when there is none
mean(cells) ==
    IF Present(cells) = <<>> THEN Missing
    ELSE Fraction(SumOf(Present(cells)).n,
                  SumOf(Present(cells)).d * Len(Present(cells)))

\* Series.fillna(value)
fillna(cells, value) ==
    [i \in 1..Len(cells) |-> IF IsNa(cells[i]) THEN value ELSE cells[i]]

\* the order of the characters of the words met here
Collation == " #+-.0123456789ABCDEFGHIJKLMNOPQRSTUVWXYZabcdefghijklmnopqrstuvwxyz"
Rank(c) == CHOOSE i \in 1..Len(Collation) : Char(Collation, i) = c

\* the str a sorts before the str b
RECURSIVE Less(_, _)
Less(a, b) ==
    IF b = "" THEN FALSE
    ELSE IF a = "" THEN TRUE
    ELSE IF Char(a, 1) = Char(b, 1)
    THEN Less(SubSeq(a, 2, Len(a)), SubSeq(b, 2, Len(b)))
    ELSE Rank(Char(a, 1)) < Rank(Char(b, 1))

\* how often the cell c occurs in cells
Occurrences(cells, c) == Cardinality({i \in 1..Len(cells) : cells[i] = c})

\* Series.mode() of a column of text: the most frequent of the values
\* present, sorted
Modes(cells) ==
    {c \in Range(Present(cells)) :
        \A e \in Range(Present(cells)) :
            Occurrences(cells, e) <= Occurrences(cells, c)}

\* line 174: mode_val.iloc[0], or 'Unknown' when the mode is empty
fill_val(cells) ==
    IF Modes(cells) = {} THEN Word("Unknown")
    ELSE CHOOSE c \in Modes(cells) :
             \A e \in Modes(cells) : e = c \/ Less(c.s, e.s)

\* Series.interpolate(): a missing value between two values present lies on
\* the line through them, one after the last value present repeats it, one
\* before the first stays missing
interpolate(cells) ==
    [i \in 1..Len(cells) |->
        LET before == {p \in 1..(i - 1) : NotNa(cells[p])}
            after == {q \in (i + 1)..Len(cells) : NotNa(cells[q])}
        IN
        IF NotNa(cells[i]) \/ before = {} THEN cells[i]
        ELSE IF after = {} THEN cells[Largest(before)]
        ELSE LET p == Largest(before)
                 q == CHOOSE q \in after : \A r \in after : q <= r
                 a == cells[p]
                 b == cells[q]
             IN Fraction(a.n * b.d * (q - i) + b.n * a.d * (i - p),
                         a.d * b.d * (q - p))]

\* the table of the columns columns, each [dtype, cells], of nrows rows
FromColumns(cols, columns, nrows) ==
    Grid(cols, [j \in 1..Len(cols) |-> columns[j].dtype],
         [i \in 1..nrows |-> [j \in 1..Len(cols) |-> columns[j].cells[i]]])

\* column j of df as [dtype, cells]
Series(df, j) == [dtype |-> df.dtypes[j], cells |-> Column(df.rows, j)]

\* a row without a missing value
IsComplete(row) == \A j \in 1..Len(row) : NotNa(row[j])

\* lines 166-179: the missing-value policy handle_missing
handle_missing(df, policy) ==
    CASE policy = "drop" ->
            Grid(df.cols, df.dtypes, SelectSeq(df.rows, IsComplete))
      [] policy = "fill" ->
            FromColumns(df.cols,
                [j \in 1..Len(df.cols) |->
                    [dtype |-> df.dtypes[j],
                     cells |-> IF df.dtypes[j] = "num"
                               THEN fillna(Column(df.rows, j),
                                           mean(Column(df.rows, j)))
                               ELSE fillna(Column(df.rows, j),
                                           fill_val(Column(df.rows, j)))]],
                Len(df.rows))
      [] policy = "interpolate" ->
            FromColumns(df.cols,
                [j \in 1..Len(df.cols) |->
                    [dtype |-> df.dtypes[j],
                     cells |-> IF df.dtypes[j] = "num"
                               THEN interpolate(Column(df.rows, j))
                               ELSE Column(df.rows, j)]],
                Len(df.rows))
      [] OTHER -> df

\* lines 184-186: an object column becomes its numeric reading unless that
\* reading is missing in every row
detected(series) ==
    LET numeric_series == [i \in 1..Len(series.cells) |->
                              to_numeric(series.cells[i])]
    IN
    IF series.dtype = "obj" /\ Present(numeric_series) # <<>>
    THEN [dtype |-> "num", cells |-> numeric_series]
    ELSE series

\* lines 181-186: the type inference pass
auto_detect(df) ==
    FromColumns(df.cols, [j \in 1..Len(df.cols) |-> detected(Series(df, j))],
                Len(df.rows))

\* _process_dataframe(df) under the DataConfig config, cell by cell
process_cells(df, config) ==
    IF config.auto_detect_types
    THEN auto_detect(handle_missing(df, config.handle_missing))
    ELSE handle_missing(df, config.handle_missing)

\* a count of all the rows
count_Rows(cells) == Len(cells)

\* the number of values present
count(cells) == Len(Present(cells))

\* the number a is at most the number b
AtMost(a, b) == a.n * b.d <= b.n * a.d

\* the smallest and the largest of the values present, NaN without any
min(cells) ==
    IF Present(cells) = <<>> THEN Missing
    ELSE CHOOSE c \in Range(Present(cells)) :
             \A e \in Range(Present(cells)) : AtMost(c, e)
max(cells) ==
    IF Present(cells) = <<>> THEN Missing
    ELSE CHOOSE c \in Range(Present(cells)) :
             \A e \in Range(Present(cells)) : AtMost(e, c)

\* _generate_basic_statistics(df): for each column of a numeric dtype its
\* count, mean, min and max (std and the percentiles are not modelled)
generate_basic_statistics(df) ==
    [c \in {df.cols[j] : j \in {j \in 1..Len(df.cols) : df.dtypes[j] = "num"}}
        |-> LET j == CHOOSE j \in 1..Len(df.cols) : df.cols[j] = c IN
            [count |-> count(Column(df.rows, j)),
             mean |-> mean(Column(df.rows, j)),
             min |-> min(Column(df.rows, j)),
             max |-> max(Column(df.rows, j))]]

\* the tables cleaned and summarised in scope "cells": none, or a numeric
\* column v and a text column t with up to MaxRows rows
MaxRows == 3
NumericCells == {Number(1), Number(3), Missing}
TextCells == {Word("4"), Word("abc"), Missing}
Frames ==
    {EmptyGrid}
    \cup {Grid(<<StrSel("v"), StrSel("t")>>, <<"num", "obj">>, rows) :
             rows \in SeqsOf({<<a, b>> : a \in NumericCells, b \in TextCells},
                             0, MaxRows)}

\* the DataConfig settings the cleaning reads
DataConfigs ==
    [handle_missing : {"drop", "fill", "interpolate"},
     auto_detect_types : BOOLEAN]

\* _process_dataframe(df) applied to the table and settings drawn; mid is
\* the table after the missing-value pass
process_dataframe_call ==
    /\ call.op = "input"
    /\ call.fn = "_process_dataframe"
    /\ call' = [op |-> "_process_dataframe", args |-> call.args,
                mid |-> handle_missing(call.args.df,
                                       call.args.config.handle_missing),
                ret |-> process_cells(call.args.df, call.args.config),
                at |-> now]
    /\ CellsUnchanged

\* _generate_basic_statistics(df) applied to the table drawn
generate_basic_statistics_call ==
    /\ call.op = "input"
    /\ call.fn = "_generate_basic_statistics"
    /\ call' = [op |-> "_generate_basic_statistics", args |-> call.args,
                ret |-> generate_basic_statistics(call.args.df), at |-> now]
    /\ CellsUnchanged

\* a recorder in scope "cells", with the arguments of one private method
InitCells ==
    /\ run_dir = ""
    /\ phase_dir = ""
    /\ cwd = top_dir
    /\ current_run_info = EmptyInfo
    /\ now = 0
    /\ pre = [run_dir |-> "", phase_dir |-> "", cwd |-> top_dir,
              current_run_info |-> EmptyInfo]
    /\ log = <<>>
    /\ made = {top_dir}
    /\ written = <<>>
    /\ files = NoFiles
    /\ scope = "cells"
    /\ \/ \E v \in Values, headers \in HeaderLists :
              call = Input("_convert_to_dataframe",
                           [data |-> v, headers |-> headers])
       \/ \E raw_lines \in SeqsOf(Lines, 0, MaxLines) :
              call = Input("_parse_txt_file", [raw_lines |-> raw_lines])
       \/ \E df \in Frames, config \in DataConfigs :
              call = Input("_process_dataframe", [df |-> df, config |-> config])
       \/ \E df \in Frames :
              call = Input("_generate_basic_statistics", [df |-> df])

CellCalls ==
    \/ convert_to_dataframe_call
    \/ parse_txt_file_call
    \/ process_dataframe_call
    \/ generate_basic_statistics_call

SpecCells == InitCells /\ [][CellCalls]_vars

-----------------------------------------------------------------------------
(* Helpers of the properties of the private methods (scope "cells")         *)

\* the private method fn has been applied
Applied(fn) == call.op = fn

\* element k, counting from the smallest, of the set K of naturals
Nth(K, k) == CHOOSE i \in K : Cardinality({m \in K : m <= i}) = k

\* q is the sequence of the elements of p at the places K, in order
IsSelection(q, p, K) ==
    /\ Len(q) = Cardinality(K)
    /\ \A k \in 1..Len(q) : q[k] = p[Nth(K, k)]

(* C21: a key-value mapping normalizes to a single row with one column per  *)
(* key if no value is itself a sequence, and otherwise (at least one value  *)
(* is a sequence) to one column per key with one row per sequence element;  *)
(* {"a": 1, "b": 2} gives one row under the columns a, b.                   *)
C21_MappingRows ==
    Applied("_convert_to_dataframe") /\ call.args.data.shape = "dict" =>
        LET v == call.args.data
            df == call.ret
        IN
        /\ df.ok
        /\ df.cols = StrLabels(v.names)
        /\ IF v.lists = {}
           THEN /\ Len(df.rows) = 1
                /\ \A i \in 1..Len(v.names) : df.rows[1][i] = v.rows[i][1]
           ELSE \A i \in v.lists :
                    /\ Len(df.rows) = Len(v.rows[i])
                    /\ \A r \in 1..Len(v.rows[i]) : df.rows[r][i] = v.rows[i][r]

\* the rows and the columns an input has by its shape
NaturalRows(v) ==
    CASE v.shape = "scalar" -> 1
      [] v.shape = "dict" ->
            IF v.lists = {} THEN 1
            ELSE Largest({Len(v.rows[i]) : i \in v.lists})
      [] v.shape = "file" -> Len(v.names)
      [] v.shape = "txt" ->
            IF Kept(v.names) = <<>> THEN 0
            ELSE IF header_detected(split(Kept(v.names)[1]))
            THEN Len(Kept(v.names)) - 1
            ELSE Len(Kept(v.names))
      [] OTHER -> Len(v.rows)
NaturalColumns(v) ==
    CASE v.shape \in {"scalar", "scalars", "file"} -> 1
      [] v.shape \in {"dict", "records", "DataFrame"} -> Len(v.names)
      [] v.shape = "txt" ->
            Largest({0} \cup {Len(split(Kept(v.names)[i])) :
                                 i \in 1..Len(Kept(v.names))})
      [] OTHER -> IF v.rows = <<>> THEN 0 ELSE Len(v.rows[1])

(* C22: for every supported input shape _convert_to_dataframe returns a     *)
(* table with the natural row count and the natural column count of the     *)
(* input, with exactly one column, named "value", for a bare scalar and for *)
(* every sequence of scalars, those of length 0 and 1 included.             *)
C22_NaturalShape ==
    Applied("_convert_to_dataframe") =>
        LET v == call.args.data
            df == call.ret
        IN
        /\ df.ok
        /\ Len(df.rows) = NaturalRows(v)
        /\ Len(df.cols) = NaturalColumns(v)
        /\ \A i \in 1..Len(df.rows) : Len(df.rows[i]) = Len(df.cols)
        /\ v.shape \in {"scalar", "scalars"} => df.cols = <<StrSel("value")>>

\* the cell reads as a number
Converts(c) == c.k = "num" \/ (c.k = "str" /\ is_numeric(strip(c.s)))

(* C23: with type auto-detection enabled, _process_dataframe promotes a     *)
(* text column to numeric only if every value of it that is not missing     *)
(* converts to a number; a text column with a value that does not convert   *)
(* is left unchanged, so the type inference pass replaces no value that is  *)
(* not missing by a missing marker.                                         *)
C23_PromotionNeedsEveryValue ==
    Applied("_process_dataframe") /\ call.args.config.auto_detect_types =>
        \A j \in 1..Len(call.mid.cols) : call.mid.dtypes[j] = "obj" =>
            LET before == Column(call.mid.rows, j)
                after == Column(call.ret.rows, j)
            IN
            /\ call.ret.dtypes[j] = "num" =>
                   \A i \in 1..Len(before) :
                       NotNa(before[i]) => Converts(before[i])
            /\ (\E i \in 1..Len(before) :
                    NotNa(before[i]) /\ ~Converts(before[i]))
                   => after = before /\ call.ret.dtypes[j] = "obj"
            /\ \A i \in 1..Len(before) : NotNa(before[i]) => NotNa(after[i])

\* the sum of the integers cells
RECURSIVE IntSum(_)
IntSum(cells) ==
    IF cells = <<>> THEN 0 ELSE Head(cells).n + IntSum(Tail(cells))

(* C24: under the fill policy every missing value of a numeric column that  *)
(* has a value is replaced by the mean of the values of the column that are *)
(* not missing, and every value that is not missing is left unchanged       *)
(* ([1, missing, 3] becomes [1, 2, 3]); under the drop policy the rows kept *)
(* are exactly the input rows without a missing value, in their order.      *)
C24_FillAndDrop ==
    Applied("_process_dataframe") =>
        LET df == call.args.df
            config == call.args.config
            ret == call.ret
        IN
        /\ config.handle_missing = "fill" =>
               /\ Len(ret.rows) = Len(df.rows)
               /\ \A j \in 1..Len(df.cols) : df.dtypes[j] = "num" =>
                      LET cells == Column(df.rows, j)
                          vals == Present(cells)
                      IN
                      /\ ret.dtypes[j] = "num"
                      /\ \A i \in 1..Len(cells) :
                             LET m == ret.rows[i][j] IN
                             IF NotNa(cells[i]) THEN m = cells[i]
                             ELSE IF vals = <<>> THEN m = Missing
                             ELSE /\ m.k = "num"
                                  /\ m.d > 0
                                  /\ m.n * Len(vals) = m.d * IntSum(vals)
        /\ config.handle_missing = "drop" =>
               /\ IsSelection(call.mid.rows, df.rows,
                              {i \in 1..Len(df.rows) :
                                  \A j \in 1..Len(df.cols) :
                                      df.rows[i][j].k # "nan"})
               /\ Len(ret.rows) = Len(call.mid.rows)
               /\ ~config.auto_detect_types => ret = call.mid
               /\ \A j \in 1..Len(df.cols) : df.dtypes[j] = "num" =>
                      Column(ret.rows, j) = Column(call.mid.rows, j)

\* the column [1, missing, 3] filled
C24_Witness ==
    /\ Applied("_process_dataframe")
    /\ call.args.config.handle_missing = "fill"
    /\ Column(call.args.df.rows, 1) = <<Number(1), Missing, Number(3)>>
    /\ Column(call.ret.rows, 1) = <<Number(1), Number(2), Number(3)>>

(* C25: the statistics mapping has exactly one entry per numeric column of  *)
(* the table and none for the other columns; the count of an entry is the   *)
(* number of values of the column that are not missing, its min and max are *)
(* the smallest and the largest of them; an empty table gives an empty      *)
(* mapping, without an error.                                               *)
C25_StatisticsPerNumericColumn ==
    Applied("_generate_basic_statistics") =>
        LET df == call.args.df
            stats == call.ret
            numeric == {j \in 1..Len(df.cols) : df.dtypes[j] = "num"}
        IN
        /\ DOMAIN stats = {df.cols[j] : j \in numeric}
        /\ \A j \in numeric :
               LET cells == Column(df.rows, j)
                   there == {i \in 1..Len(cells) : cells[i].k # "nan"}
                   e == stats[df.cols[j]]
               IN
               /\ e.count = Cardinality(there)
               /\ there # {} =>
                      /\ \E i \in there : e.min = cells[i]
                      /\ \E i \in there : e.max = cells[i]
                      /\ \A i \in there :
                             /\ e.min.n * cells[i].d <= cells[i].n * e.min.d
                             /\ cells[i].n * e.max.d <= e.max.n * cells[i].d
        /\ df.cols = <<>> => DOMAIN stats = {}

\* a numeric column of three rows, two values 1 and 3 and a missing one,
\* beside a text column
C25_Witness ==
    /\ Applied("_generate_basic_statistics")
    /\ Len(call.args.df.rows) = 3
    /\ DOMAIN call.ret = {StrSel("v")}
    /\ call.ret[StrSel("v")].count = 2
    /\ call.ret[StrSel("v")].min = Number(1)
    /\ call.ret[StrSel("v")].max = Number(3)

\* a blank line; a line whose first character after leading whitespace is #
IsBlank(line) == \A i \in 1..Len(line) : Char(line, i) \in {" ", "\t"}
IsComment(line) ==
    \E i \in 1..Len(line) :
        /\ Char(line, i) = "#"
        /\ \A m \in 1..(i - 1) : Char(line, m) \in {" ", "\t"}

(* C26: parsing a .txt file drops only the blank lines and the lines that   *)
(* start with '#' (after leading whitespace); the first remaining line is   *)
(* taken as the header if and only if at least one of its tokens is not     *)
(* numeric-parseable; every other remaining line becomes exactly one row,   *)
(* and each row shorter than the longest data row is padded on the right    *)
(* with missing markers, so that all rows have the maximum token count.     *)
C26_TextFileRows ==
    Applied("_parse_txt_file") =>
        LET raw == call.args.raw_lines
            kept == call.lines
            data == IF call.header_detected THEN Tail(kept) ELSE kept
            width == Largest({0} \cup {Len(split(data[i])) : i \in 1..Len(data)})
        IN
        /\ IsSelection(kept, raw,
                       {i \in 1..Len(raw) :
                           ~IsBlank(raw[i]) /\ ~IsComment(raw[i])})
        /\ call.header_detected <=>
               /\ kept # <<>>
               /\ \E i \in 1..Len(split(kept[1])) :
                      ~is_numeric(split(kept[1])[i])
        /\ Len(call.padded_rows) = Len(data)
        /\ Len(call.ret.rows) = Len(data)
        /\ \A i \in 1..Len(data) :
               /\ Len(call.padded_rows[i]) = width
               /\ Len(call.ret.rows[i]) = width
               /\ \A j \in 1..width :
                      call.padded_rows[i][j] =
                          IF j <= Len(split(data[i]))
                          THEN Word(split(data[i])[j]) ELSE Missing

\* a comment line dropped and the row "3" padded to the two cells of "1 2"
C26_Witness ==
    /\ Applied("_parse_txt_file")
    /\ Len(call.args.raw_lines) = 3
    /\ call.lines = <<"1 2", "3">>
    /\ ~call.header_detected
    /\ call.padded_rows = <<<<Word("1"), Word("2")>>, <<Word("3"), Missing>>>>
    /\ call.ret.rows = <<<<Number(1), Number(2)>>, <<Number(3), Missing>>>>

=============================================================================
